---- MODULE Spec2Model ----
(***************************************************************************)
(* Storage gateway of taller-computoV2 (web/utils.py, web/__init__.py,     *)
(* web/routes/alumno.py): FileValidator.validate, guardar_archivo,         *)
(* S3Manager and the ver_archivo views.                                    *)
(*                                                                         *)
(* Filenames are sequences of one-character strings.  The bytes of a       *)
(* stream are a record [head, size]: the first HeadLen bytes are listed,   *)
(* every later byte is Filler, so that streams of 50 MiB are values the    *)
(* checker can hold.                                                       *)
(***************************************************************************)
EXTENDS Integers, Sequences, FiniteSets, TLC

\* ------------------------------------------------------------------ bounds
\* Number of leading bytes of a stream that are listed one by one.
HeadLen == 2
\* Largest read position a stream is handed to validate with.
MaxStartPos == 2
\* Most bytes a failed remote upload is seen to have read from the stream.
MaxConsumed == 1
\* Free bytes above the 1 GiB threshold on the roomier of the two disks.
DiskSlack == 4

\* ------------------------------------------------------------ sequences
Min(a, b) == IF a < b THEN a ELSE b

\* Python `sub in s` for sequences of characters.
Contains(s, sub) ==
    \E i \in 1..(Len(s) - Len(sub) + 1) : SubSeq(s, i, i + Len(sub) - 1) = sub

\* Index of the last occurrence of character c in s, 0 when there is none.
LastIndexOf(s, c) ==
    IF \E i \in 1..Len(s) : s[i] = c
    THEN CHOOSE i \in 1..Len(s) : s[i] = c /\ \A j \in (i + 1)..Len(s) : s[j] # c
    ELSE 0

\* str.lower() on the characters the model uses.
LowerChar(c) ==
    CASE c = "A" -> "a" [] c = "D" -> "d" [] c = "E" -> "e" [] c = "F" -> "f"
      [] c = "G" -> "g" [] c = "H" -> "h" [] c = "J" -> "j" [] c = "M" -> "m"
      [] c = "N" -> "n" [] c = "O" -> "o" [] c = "P" -> "p" [] c = "R" -> "r"
      [] c = "T" -> "t" [] c = "X" -> "x"
      [] OTHER -> c

Lower(s) == [i \in 1..Len(s) |-> LowerChar(s[i])]

\* filename.rsplit('.', 1)[1].lower() if '.' in filename else ''
ExtOf(filename) ==
    IF Contains(filename, <<".">>)
    THEN Lower(SubSeq(filename, LastIndexOf(filename, ".") + 1, Len(filename)))
    ELSE <<>>

\* ---------------------------------------------------------------- bytes
NUL == 0
Filler == 97

\* A value of bytes: head lists the first Min(size, HeadLen) bytes.
ByteAt(c, i) == IF i <= Len(c.head) THEN c.head[i] ELSE Filler

\* c[k:]
DropBytes(c, k) ==
    LET n == IF k >= c.size THEN 0 ELSE c.size - k
    IN  [head |-> [i \in 1..Min(n, HeadLen) |-> ByteAt(c, k + i)], size |-> n]

\* c[:n]
TakeBytes(c, n) ==
    [head |-> SubSeq(c.head, 1, Min(n, Len(c.head))), size |-> Min(n, c.size)]

\* b'\x00' in c
HasNul(c) ==
    \/ \E i \in 1..Len(c.head) : c.head[i] = NUL
    \/ (c.size > Len(c.head) /\ Filler = NUL)

\* A stream is [content, pos]: stream.read(n) from the current position.
ReadBytes(stream, n) == TakeBytes(DropBytes(stream.content, stream.pos), n)
PosAfterRead(stream, n) ==
    IF stream.pos >= stream.content.size THEN stream.pos
    ELSE Min(stream.pos + n, stream.content.size)

\* ------------------------------------------------- filenames of the model
png == <<"p","n","g">>
jpg == <<"j","p","g">>
jpeg == <<"j","p","e","g">>
gif == <<"g","i","f">>
webp == <<"w","e","b","p">>
bmp == <<"b","m","p">>
pdf == <<"p","d","f">>
doc == <<"d","o","c">>
docx == <<"d","o","c","x">>
txt == <<"t","x","t">>
odt == <<"o","d","t">>
ppt == <<"p","p","t">>
pptx == <<"p","p","t","x">>
xls == <<"x","l","s">>
xlsx == <<"x","l","s","x">>
zip == <<"z","i","p">>
rar == <<"r","a","r">>
sevenz == <<"7","z">>

photo_png == <<"p","h","o","t","o",".","p","n","g">>
photo_jpg == <<"p","h","o","t","o",".","j","p","g">>
PHOTO_JPG == <<"P","H","O","T","O",".","J","P","G">>
pic_jpeg == <<"p","i","c",".","j","p","e","g">>
notes_txt == <<"n","o","t","e","s",".","t","x","t">>
report_pdf == <<"r","e","p","o","r","t",".","p","d","f">>
virus_exe == <<"v","i","r","u","s",".","e","x","e">>
README == <<"R","E","A","D","M","E">>
a_dotdot_b_txt == <<"a",".",".","b",".","t","x","t">>
dotdot_slash_x_png == <<".",".","/","x",".","p","n","g">>
a_slash_b_txt == <<"a","/","b",".","t","x","t">>
a_backslash_b_txt == <<"a","\\","b",".","t","x","t">>
dotdot_slash_notes_txt == <<".",".","/","n","o","t","e","s",".","t","x","t">>

\* Filenames FileValidator.validate is called with.
Filenames ==
    { photo_png, photo_jpg, PHOTO_JPG, pic_jpeg, notes_txt, report_pdf, virus_exe,
      README, a_dotdot_b_txt, dotdot_slash_x_png, a_slash_b_txt, a_backslash_b_txt }

\* --------------------------------------------------------- FileValidator
max_size == 50 * 1024 * 1024

allowed_extensions ==
    [ images |-> {png, jpg, jpeg, gif, webp, bmp},
      documents |-> {pdf, doc, docx, txt, odt, ppt, pptx, xls, xlsx},
      archives |-> {zip, rar, sevenz} ]

all_extensions ==
    allowed_extensions.images \cup allowed_extensions.documents
        \cup allowed_extensions.archives

mime_to_ext ==
    [ m \in { "image/png", "image/jpeg", "image/gif", "image/webp", "image/bmp",
              "application/pdf", "application/msword",
              "application/vnd.openxmlformats-officedocument.wordprocessingml.document",
              "application/vnd.ms-excel",
              "application/vnd.openxmlformats-officedocument.spreadsheetml.sheet",
              "application/vnd.ms-powerpoint",
              "application/vnd.openxmlformats-officedocument.presentationml.presentation",
              "text/plain", "application/zip", "application/x-rar-compressed",
              "application/x-7z-compressed" } |->
        CASE m = "image/png" -> {png}
          [] m = "image/jpeg" -> {jpg, jpeg}
          [] m = "image/gif" -> {gif}
          [] m = "image/webp" -> {webp}
          [] m = "image/bmp" -> {bmp}
          [] m = "application/pdf" -> {pdf}
          [] m = "application/msword" -> {doc}
          [] m = "application/vnd.openxmlformats-officedocument.wordprocessingml.document" -> {docx}
          [] m = "application/vnd.ms-excel" -> {xls}
          [] m = "application/vnd.openxmlformats-officedocument.spreadsheetml.sheet" -> {xlsx}
          [] m = "application/vnd.ms-powerpoint" -> {ppt}
          [] m = "application/vnd.openxmlformats-officedocument.presentationml.presentation" -> {pptx}
          [] m = "text/plain" -> {txt}
          [] m = "application/zip" -> {zip}
          [] m = "application/x-rar-compressed" -> {rar}
          [] m = "application/x-7z-compressed" -> {sevenz} ]

\* magic.from_buffer(buf, mime=True), reduced to the two-byte prefixes of the
\* signatures: FF D8 (JPEG), 89 50 (PNG), 25 50 (%P of %PDF), all-printable
\* bytes (text), anything else binary data.
IsPrintable(b) == b >= 32 /\ b < 127
MagicFromBuffer(buf) ==
    IF buf.size = 0 THEN "application/x-empty"
    ELSE IF Len(buf.head) >= 2 /\ SubSeq(buf.head, 1, 2) = <<255, 216>> THEN "image/jpeg"
    ELSE IF Len(buf.head) >= 2 /\ SubSeq(buf.head, 1, 2) = <<137, 80>> THEN "image/png"
    ELSE IF Len(buf.head) >= 2 /\ SubSeq(buf.head, 1, 2) = <<37, 80>> THEN "application/pdf"
    ELSE IF \A i \in 1..Len(buf.head) : IsPrintable(buf.head[i]) THEN "text/plain"
    ELSE "application/octet-stream"

\* NameInvalid without the backslash test.
NameInvalid_NoBackslash(filename) ==
    \/ Contains(filename, <<".", ".">>)
    \/ Contains(filename, <<"/">>)

\* utils.py:224
NameInvalid(filename) ==
    \/ Contains(filename, <<".", ".">>)
    \/ Contains(filename, <<"/">>)
    \/ Contains(filename, <<"\\">>)

\* TooLarge with the ceiling itself rejected.
TooLarge_AtCeiling(size) == size >= max_size

\* utils.py:232
TooLarge(size) == size > max_size

\* utils.py:237-257, the body of the try: the exception it raises, "" when it
\* runs to its end.  The stream is at 0 when it starts and is put back to 0
\* (line 238) before anything can raise.
TryBody(content, filename, magic_raises) ==
    LET file_content == ReadBytes([content |-> content, pos |-> 0], 2048)
        mime == MagicFromBuffer(file_content)
        ext == ExtOf(filename)
    IN  IF magic_raises THEN "MagicException"
        ELSE IF mime \notin DOMAIN mime_to_ext THEN "MimeNotAllowed"
        ELSE IF ext = <<>> THEN "MissingExtension"
        ELSE IF ext \notin mime_to_ext[mime]
                /\ ~(mime = "image/jpeg" /\ ext \in {jpg, jpeg})
             THEN "ExtensionMimeMismatch"
        ELSE IF ext \notin all_extensions THEN "ExtensionNotAllowed"
        ELSE ""

\* ExceptHandler catching the failure of the sniffer only: the
\* FileValidationErrors of the try body go on to the caller.
ExceptHandler_OnlySniffer(raised, filename) ==
    IF raised = "MagicException"
    THEN IF ExtOf(filename) \notin all_extensions THEN "ExtensionNotAllowed" ELSE ""
    ELSE raised

\* ExceptHandler letting the exception it caught go on to the caller.
ExceptHandler_Reraise(raised, filename) == raised

\* utils.py:259-264: `except Exception` catches whatever the try body raised,
\* the FileValidationErrors of lines 243-257 included, and checks the
\* extension alone.  The exception that leaves the handler, "" when none.
ExceptHandler(raised, filename) ==
    IF raised = "" THEN ""
    ELSE IF ExtOf(filename) \notin all_extensions THEN "ExtensionNotAllowed"
    ELSE ""

\* utils.py:267-275: the exception raised inside the inner try, which the bare
\* `except: pass` of lines 274-275 swallows.
TextCheckRaised(content, ext) ==
    LET sample == ReadBytes([content |-> content, pos |-> 0], 1024)
    IN  IF ext \in {txt, pdf, doc, docx} /\ HasNul(sample) /\ ext = txt
        THEN "BinaryContentInTextFile"
        ELSE ""

ValidateFail(kind, pos, reads) ==
    [ok |-> FALSE, error |-> kind, pos |-> pos, reads |-> reads, swallowed |-> <<>>]

\* FileValidator.validate(file_stream, filename): ok is the `return True`,
\* error the kind of the FileValidationError raised, pos the read position of
\* file_stream when the call ends, reads the number of read() calls made,
\* swallowed the exceptions raised and caught inside the call.
validate(file_stream, filename, magic_raises) ==
    IF NameInvalid(filename) THEN ValidateFail("InvalidName", file_stream.pos, 0)
    ELSE IF TooLarge(file_stream.content.size) THEN ValidateFail("FileTooLarge", 0, 0)
    ELSE
        LET raised == TryBody(file_stream.content, filename, magic_raises)
            escaped == ExceptHandler(raised, filename)
            ext == ExtOf(filename)
            inner == TextCheckRaised(file_stream.content, ext)
        IN  IF escaped # "" THEN ValidateFail(escaped, 0, 1)
            ELSE [ ok |-> TRUE, error |-> "", pos |-> 0,
                   reads |-> IF ext \in {txt, pdf, doc, docx} THEN 2 ELSE 1,
                   swallowed |-> SelectSeq(<<raised, inner>>, LAMBDA e : e # "") ]

\* ------------------------------------------------------- secure_filename
\* werkzeug.utils.secure_filename on POSIX: os.sep becomes a space, runs of
\* whitespace become one "_", every character outside [A-Za-z0-9_.-] is
\* deleted, leading and trailing "." and "_" are stripped.
SafeChars ==
    { "a", "b", "c", "d", "e", "f", "g", "h", "i", "j", "l", "m", "n", "o", "p", "r",
      "s", "t", "u", "v", "w", "x", "y", "z", "A", "D", "E", "G", "H", "J", "M", "O",
      "P", "R", "T", "7", "_", ".", "-" }
IsSafeChar(c) == c \in SafeChars
IsSpace(c) == c = " "

ReplaceSep(s) == [i \in 1..Len(s) |-> IF s[i] = "/" THEN " " ELSE s[i]]

RECURSIVE Concat(_)
Concat(ss) == IF ss = <<>> THEN <<>> ELSE Head(ss) \o Concat(Tail(ss))

\* "_".join(s.split())
SplitJoin(s) ==
    Concat([i \in 1..Len(s) |->
        IF IsSpace(s[i]) THEN <<>>
        ELSE IF i > 1 /\ IsSpace(s[i - 1]) /\ (\E j \in 1..(i - 1) : ~IsSpace(s[j]))
             THEN <<"_", s[i]>>
        ELSE <<s[i]>>])

\* s.strip("._")
StripDotsUnderscores(s) ==
    LET keep == {i \in 1..Len(s) : s[i] \notin {".", "_"}}
    IN  IF keep = {} THEN <<>>
        ELSE SubSeq(s, CHOOSE i \in keep : \A j \in keep : i <= j,
                       CHOOSE i \in keep : \A j \in keep : i >= j)

secure_filename(filename) ==
    StripDotsUnderscores(SelectSeq(SplitJoin(ReplaceSep(filename)), IsSafeChar))

\* ================================================================ state
VARIABLES
    v_call,      \* the FileValidator.validate call made last, NoCall before any
    v_ret,       \* what that call did
    environ,     \* os.environ holds S3_ENDPOINT, S3_KEY and S3_SECRET
    s3_manager,  \* the module-level S3Manager of utils.py:579
    bucket,      \* the remote bucket: sanitized name -> bytes under uploads/<name>
    uploads,     \* the local folder uploads/: sanitized name -> bytes
    disk_free,   \* shutil.disk_usage(upload_folder).free, in bytes
    stored,      \* per sanitized name, the last successful guardar_archivo of it
    db,          \* the tables of web/models.py that hold file references
    proc,        \* the worker process: the requests it is serving and what it keeps in memory
    session,     \* the Flask session of the browser whose requests are followed
    last         \* the request handled last and its outcome

vars == <<v_call, v_ret, environ, s3_manager, bucket, uploads, disk_free, stored, db, proc, session, last>>
validator_vars == <<v_call, v_ret>>
storage_vars == <<environ, s3_manager, bucket, uploads, disk_free, stored, db, proc, session, last>>

NoCall == [op |-> "none"]
Absent == [absent |-> TRUE]

\* ------------------------------------------------------ validate's inputs
ByteVals == {0, 37, 80, 97, 137, 216, 255}
Sizes == {0, 1, 2, 3, max_size, max_size + 1}

RECURSIVE SeqsOfLen(_, _)
SeqsOfLen(S, n) ==
    IF n = 0 THEN {<<>>}
    ELSE {Append(q, b) : q \in SeqsOfLen(S, n - 1), b \in S}

\* Every stream content of the model: Min(size, HeadLen) listed bytes.
Contents ==
    UNION {{[head |-> h, size |-> n] : h \in SeqsOfLen(ByteVals, Min(n, HeadLen))}
           : n \in Sizes}

\* utils.py:95-100, S3Manager.__init__
S3Manager == [is_configured |-> environ]

GiB == 1024 * 1024 * 1024

\* db.create_all() on a new database: every table empty.
EmptyDb ==
    [reportes |-> {}, boletas |-> {}, pagos |-> {}, recibos |-> {},
     solicitudes |-> {}, enviados |-> {}, libros |-> {}, recursos |-> {},
     mensajes |-> {}, configuracion |-> <<>>]

\* A session that holds no key, as a first visit and session.clear() leave
\* it: session.get('tipo_usuario') is None.
NoSession == [tipo_usuario |-> "none"]

\* The worker process as gunicorn starts it: no request in progress, the
\* clock of time.time() at its origin, the chat_limiter of utils.py:581 and
\* the RateLimiter under test empty.  `accepted` is the list of the calls of
\* that RateLimiter that were answered True, as its callers saw them.
\* usuarios_conectados and usuarios_escribiendo are the dicts of
\* chat_events.py:10-11; sockets are the open socket connections, each with
\* the copy of the session it was opened with, next_sid the next request.sid.
ProcInit ==
    [requests |-> {}, time |-> 0, chat_limiter |-> <<>>,
     limiter |-> <<>>, accepted |-> <<>>,
     usuarios_conectados |-> <<>>, usuarios_escribiendo |-> <<>>,
     sockets |-> <<>>, next_sid |-> 1]

\* ---------------------------------------------------------------- Init
StorageInit ==
    /\ environ \in BOOLEAN
    /\ s3_manager = S3Manager
    /\ bucket = [n \in {} |-> Absent]
    /\ uploads = [n \in {} |-> Absent]
    /\ disk_free \in {GiB - 1, GiB + DiskSlack}
    /\ stored = [n \in {} |-> Absent]
    /\ db = EmptyDb
    /\ proc = ProcInit
    /\ session = NoSession
    /\ last = NoCall

Init ==
    /\ v_call = NoCall
    /\ v_ret = NoCall
    /\ StorageInit

\* ------------------------------------------------- FileValidator.validate
\* The calls of validate: any content, left at any position by the caller,
\* under any filename, with a sniffer that works or throws.
ValidatorInit ==
    /\ \E content \in Contents, filename \in Filenames, magic_raises \in BOOLEAN :
        \E start \in 0..Min(MaxStartPos, content.size) :
            v_call = [op |-> "validate", content |-> content, start |-> start,
                      filename |-> filename, magic_raises |-> magic_raises]
    /\ v_ret = NoCall
    /\ environ = FALSE
    /\ s3_manager = S3Manager
    /\ bucket = [n \in {} |-> Absent]
    /\ uploads = [n \in {} |-> Absent]
    /\ disk_free = GiB
    /\ stored = [n \in {} |-> Absent]
    /\ db = EmptyDb
    /\ proc = ProcInit
    /\ session = NoSession
    /\ last = NoCall

Validate ==
    /\ v_call # NoCall
    /\ v_ret = NoCall
    /\ v_ret' = validate([content |-> v_call.content, pos |-> v_call.start],
                         v_call.filename, v_call.magic_raises)
    /\ UNCHANGED <<v_call, storage_vars>>

SpecValidator == ValidatorInit /\ [][Validate]_vars

\* ================================================ guardar_archivo, S3
uploads_prefix == <<"u","p","l","o","a","d","s","/">>

\* Bytes that start with `prefix` and go on with Filler up to `size`.
MkContent(prefix, size) ==
    [head |-> [i \in 1..Min(size, HeadLen) |->
                  IF i <= Len(prefix) THEN prefix[i] ELSE Filler],
     size |-> size]

\* The files uploaded in the model: request.files entries, filename as the
\* browser sent it.
UploadNames == {report_pdf, dotdot_slash_notes_txt, a_dotdot_b_txt}
PdfBytes == MkContent(<<37, 80>>, 3)
TextWithNul == MkContent(<<97, NUL>>, 2)
OversizePdf == MkContent(<<37, 80>>, max_size + 1)
Archivos ==
    [filename : {report_pdf, dotdot_slash_notes_txt}, content : {PdfBytes, TextWithNul}]
        \cup {[filename |-> a_dotdot_b_txt, content |-> PdfBytes],
              [filename |-> report_pdf, content |-> OversizePdf]}

\* utils.py:346 without the folder prefix.
S3Key_NoPrefix(filename) == filename

\* utils.py:346, s3_key = f"uploads/{filename}"
S3Key(filename) == uploads_prefix \o filename

\* The second element of `return (filename, False)` given as True.
LocalReturn_FlagTrue(filename) == [ref |-> filename, es_s3 |-> TRUE]

\* utils.py:359, return (filename, False)
LocalReturn(filename) == [ref |-> filename, es_s3 |-> FALSE]

\* utils.py:348, return (s3_key, True)
S3Return(s3_key) == [ref |-> s3_key, es_s3 |-> TRUE]

min_free_gb == 1

\* check_disk_space with `<=` for `<`.
check_disk_space_Strict(free) == ~(free <= min_free_gb * GiB)

\* utils.py:334-339, check_disk_space: TRUE when it returns, FALSE when it
\* raises DiskSpaceError (free / 1024**3 < min_free_gb).
check_disk_space(free) == ~(free < min_free_gb * GiB)

\* werkzeug FileStorage.save: copies the stream from its read position on.
SaveBytes(stream) == DropBytes(stream.content, stream.pos)

SizeOnDisk(dir, name) == IF name \in DOMAIN dir THEN dir[name].size ELSE 0

\* Every exception of the try block given to the caller as an AppError.
Escapes_AllWrapped(raised) == "AppError"

\* utils.py:361-364: the three typed errors are raised again as they are, any
\* other exception of the try block leaves as an AppError.
Escapes(raised) ==
    IF raised \in {"FileValidationError", "DiskSpaceError", "S3UploadError"}
    THEN raised
    ELSE "AppError"

NotValidated == [ok |-> FALSE, error |-> "", pos |-> 0, reads |-> 0, swallowed |-> <<>>]

\* utils.py:318-364.  upload_ok: client.upload_fileobj returns; when it raises,
\* `consumed` is how far it had read the stream (upload_file put it at 0 first).
\* makedirs_ok: os.makedirs(upload_folder) of line 323 returns, otherwise it
\* raises OSError, outside the try.  save_ok: archivo.save(local_path) of line
\* 356 returns, otherwise it raises OSError before a byte is written.
\* The value is what the call returns or raises, the backend operations it
\* made in their order, and the bucket, folder and free space it leaves.
guardar_archivo(archivo, magic_raises, upload_ok, consumed, makedirs_ok, save_ok) ==
    LET filename == secure_filename(archivo.filename)
        v == validate([content |-> archivo.content, pos |-> 0], filename, magic_raises)
        s3_mgr == S3Manager
        s3_key == S3Key(filename)
        s3_tried == v.ok /\ s3_mgr.is_configured
        s3_done == s3_tried /\ upload_ok
        \* position of archivo when the local branch is reached
        stream == [content |-> archivo.content,
                   pos |-> IF s3_tried THEN Min(consumed, archivo.content.size) ELSE 0]
        data == SaveBytes(stream)
        base == [filename |-> filename, validation |-> v,
                 configured |-> s3_mgr.is_configured, s3_tried |-> s3_tried]
        unchanged == [new_bucket |-> bucket, new_uploads |-> uploads,
                      new_free |-> disk_free]
    IN  IF ~makedirs_ok THEN
            unchanged @@
            [filename |-> filename, validation |-> NotValidated,
             configured |-> s3_mgr.is_configured, s3_tried |-> FALSE,
             ok |-> FALSE, error |-> "OSError", steps |-> <<>>]
        ELSE IF ~v.ok THEN
            base @@ unchanged @@
            [ok |-> FALSE, error |-> Escapes("FileValidationError"),
             steps |-> <<"validate">>]
        ELSE IF s3_done THEN
            base @@ S3Return(s3_key) @@
            [ok |-> TRUE, error |-> "", steps |-> <<"validate", "s3_upload">>,
             new_bucket |-> (s3_key :> archivo.content) @@ bucket,
             new_uploads |-> uploads, new_free |-> disk_free]
        ELSE IF ~check_disk_space(disk_free) THEN
            base @@ unchanged @@
            [ok |-> FALSE, error |-> Escapes("DiskSpaceError"),
             steps |-> IF s3_tried THEN <<"validate", "s3_upload_failed">>
                       ELSE <<"validate">>]
        ELSE IF ~save_ok THEN
            base @@ unchanged @@
            [ok |-> FALSE, error |-> Escapes("OSError"),
             steps |-> IF s3_tried THEN <<"validate", "s3_upload_failed", "save_failed">>
                       ELSE <<"validate", "save_failed">>]
        ELSE
            base @@ LocalReturn(filename) @@
            [ok |-> TRUE, error |-> "",
             steps |-> IF s3_tried THEN <<"validate", "s3_upload_failed", "local_write">>
                       ELSE <<"validate", "local_write">>,
             new_bucket |-> bucket,
             new_uploads |-> (filename :> data) @@ uploads,
             new_free |-> disk_free + SizeOnDisk(uploads, filename) - data.size]

\* One upload request handled by guardar_archivo, for a file of `archivos`
\* and local I/O that works as `io` says.  The outcome of the remote upload is
\* drawn only where the remote store is configured, and recorded only where
\* the upload was attempted.
GuardarArchivoWith(archivos, io) ==
    \E archivo \in archivos, magic_raises \in BOOLEAN, makedirs_ok \in io, save_ok \in io :
    \E upload_ok \in IF environ THEN BOOLEAN ELSE {FALSE} :
        \E consumed \in IF upload_ok THEN {0} ELSE 0..Min(archivo.content.size, MaxConsumed) :
        \E r \in {guardar_archivo(archivo, magic_raises, upload_ok, consumed,
                                  makedirs_ok, save_ok)} :
            LET refs == {r.filename, S3Key(r.filename)}
            IN  /\ bucket' = r.new_bucket
                /\ uploads' = r.new_uploads
                /\ disk_free' = r.new_free
                /\ stored' =
                     IF r.ok
                     THEN (r.ref :> [content |-> archivo.content, es_s3 |-> r.es_s3])
                          @@ [k \in DOMAIN stored \ refs |-> stored[k]]
                     ELSE stored
                /\ last' = [op |-> "guardar_archivo", archivo |-> archivo,
                            gateway |-> s3_manager.is_configured,
                            upload_ok |-> r.s3_tried /\ upload_ok,
                            free_before |-> disk_free,
                            filename |-> r.filename, kind |-> r.validation.error,
                            configured |-> r.configured, s3_tried |-> r.s3_tried,
                            ok |-> r.ok, error |-> r.error, steps |-> r.steps,
                            ref |-> IF r.ok THEN r.ref ELSE <<>>,
                            es_s3 |-> IF r.ok THEN r.es_s3 ELSE FALSE]
                /\ UNCHANGED <<v_call, v_ret, environ, s3_manager, db, proc, session>>

\* guardar_archivo where the local folder can be created and written.
GuardarArchivo == GuardarArchivoWith(Archivos, {TRUE})

\* ============================================================ retrieval
StartsWith(s, prefix) ==
    Len(s) >= Len(prefix) /\ SubSeq(s, 1, Len(prefix)) = prefix

\* archivo_path.replace('uploads/', '') for a path that starts with it and has
\* no second occurrence (sanitized names hold no "/").
RemoveUploadsPrefix(path) == SubSeq(path, Len(uploads_prefix) + 1, Len(path))

\* utils.py:134-146, S3Manager.download_file: the body of the object, or
\* S3UploadError when get_object raises (no such key, or the remote store
\* cannot be reached: download_ok = FALSE).
download_file(key, download_ok) ==
    IF download_ok /\ key \in DOMAIN bucket
    THEN [raised |-> FALSE, body |-> bucket[key]]
    ELSE [raised |-> TRUE]

Found(body) == [status |-> "ok", body |-> body]

\* routes/alumno.py:393-448, ver_archivo behind require_alumno.
ver_archivo_alumno(archivo_path, download_ok) ==
    IF StartsWith(archivo_path, uploads_prefix) THEN
        IF s3_manager.is_configured THEN
            LET d == download_file(archivo_path, download_ok)
            IN  IF d.raised THEN [status |-> "error"] ELSE Found(d.body)
        ELSE [status |-> "unavailable"]
    ELSE
        IF archivo_path \in DOMAIN uploads
        THEN Found(uploads[archivo_path])
        ELSE [status |-> "not_found"]

\* web/__init__.py:59-137, the public ver_archivo.
ver_archivo_public(archivo_path, download_ok) ==
    IF StartsWith(archivo_path, uploads_prefix) THEN
        IF s3_manager.is_configured THEN
            LET d == download_file(archivo_path, download_ok)
            IN  IF d.raised THEN [status |-> "error"] ELSE Found(d.body)
        ELSE
            LET filename == RemoveUploadsPrefix(archivo_path)
            IN  IF filename \in DOMAIN uploads
                THEN Found(uploads[filename])
                ELSE [status |-> "no_response"]
    ELSE
        IF archivo_path \in DOMAIN uploads
        THEN Found(uploads[archivo_path])
        ELSE [status |-> "not_found"]

\* The references a client asks for: those guardar_archivo returned, each
\* until the next upload under its name.
RefPaths == DOMAIN stored

\* The request reaches the remote store, which may or may not answer.
RemoteLookup(archivo_path) ==
    StartsWith(archivo_path, uploads_prefix) /\ s3_manager.is_configured

VerArchivoAlumno ==
    \E archivo_path \in RefPaths :
    \E download_ok \in IF RemoteLookup(archivo_path) THEN BOOLEAN ELSE {TRUE} :
        /\ last' = [op |-> "ver_archivo", view |-> "alumno", path |-> archivo_path,
                    configured |-> s3_manager.is_configured,
                    download_ok |-> download_ok,
                    response |-> ver_archivo_alumno(archivo_path, download_ok)]
        /\ UNCHANGED <<v_call, v_ret, environ, s3_manager, bucket, uploads,
                       disk_free, stored, db, proc, session>>

VerArchivoPublic ==
    \E archivo_path \in RefPaths :
    \E download_ok \in IF RemoteLookup(archivo_path) THEN BOOLEAN ELSE {TRUE} :
        /\ last' = [op |-> "ver_archivo", view |-> "public", path |-> archivo_path,
                    configured |-> s3_manager.is_configured,
                    download_ok |-> download_ok,
                    response |-> ver_archivo_public(archivo_path, download_ok)]
        /\ UNCHANGED <<v_call, v_ret, environ, s3_manager, bucket, uploads,
                       disk_free, stored, db, proc, session>>

Next ==
    \/ GuardarArchivo
    \/ VerArchivoAlumno
    \/ VerArchivoPublic

Spec == Init /\ [][Next]_vars

\* ===================================== guardar_archivo with failing local I/O
\* An accepted PDF, an accepted file that is no PDF, a file over the ceiling.
ArchivosBasicos ==
    [filename : {report_pdf}, content : {PdfBytes, TextWithNul, OversizePdf}]

\* guardar_archivo where os.makedirs and archivo.save may raise OSError.
GuardarArchivoFaulty == GuardarArchivoWith(ArchivosBasicos, BOOLEAN)

NextFaults ==
    \/ GuardarArchivoFaulty
    \/ VerArchivoAlumno
    \/ VerArchivoPublic

SpecFaults == Init /\ [][NextFaults]_vars

\* ================================================ app.py, the older module
\* app.py:649-660, check_disk_space: the DiskSpaceError of line 656 is raised
\* inside the try of line 651, caught by `except Exception` of line 658, and
\* line 660 returns True; line 657 returns True as well.
check_disk_space_app(free) ==
    LET raised == IF free < min_free_gb * GiB THEN "DiskSpaceError" ELSE ""
    IN  IF raised # "" THEN TRUE ELSE TRUE

\* app.py:807-810
Escapes_app(raised) ==
    IF raised \in {"FileValidationError", "DiskSpaceError"} THEN raised ELSE "AppError"

\* app.py:776-810, guardar_archivo: the module-level file_validator (its
\* validate, app.py:165-221, is line for line that of utils.py) and the
\* module-level s3_manager.
guardar_archivo_app(archivo, magic_raises, upload_ok, consumed) ==
    LET filename == secure_filename(archivo.filename)
        v == validate([content |-> archivo.content, pos |-> 0], filename, magic_raises)
        s3_key == S3Key(filename)
        s3_tried == v.ok /\ s3_manager.is_configured
        s3_done == s3_tried /\ upload_ok
        stream == [content |-> archivo.content,
                   pos |-> IF s3_tried THEN Min(consumed, archivo.content.size) ELSE 0]
        data == SaveBytes(stream)
        base == [filename |-> filename, validation |-> v,
                 configured |-> s3_manager.is_configured, s3_tried |-> s3_tried]
        unchanged == [new_bucket |-> bucket, new_uploads |-> uploads,
                      new_free |-> disk_free]
    IN  IF ~v.ok THEN
            base @@ unchanged @@
            [ok |-> FALSE, error |-> Escapes_app("FileValidationError"),
             steps |-> <<"validate">>]
        ELSE IF s3_done THEN
            base @@ S3Return(s3_key) @@
            [ok |-> TRUE, error |-> "", steps |-> <<"validate", "s3_upload">>,
             new_bucket |-> (s3_key :> archivo.content) @@ bucket,
             new_uploads |-> uploads, new_free |-> disk_free]
        ELSE IF ~check_disk_space_app(disk_free) THEN
            base @@ unchanged @@
            [ok |-> FALSE, error |-> Escapes_app("DiskSpaceError"),
             steps |-> IF s3_tried THEN <<"validate", "s3_upload_failed">>
                       ELSE <<"validate">>]
        ELSE
            base @@ LocalReturn(filename) @@
            [ok |-> TRUE, error |-> "",
             steps |-> IF s3_tried THEN <<"validate", "s3_upload_failed", "local_write">>
                       ELSE <<"validate", "local_write">>,
             new_bucket |-> bucket,
             new_uploads |-> (filename :> data) @@ uploads,
             new_free |-> disk_free + SizeOnDisk(uploads, filename) - data.size]

\* One upload request handled by app.py's guardar_archivo.
GuardarArchivoApp ==
    \E archivo \in ArchivosBasicos, magic_raises \in BOOLEAN :
    \E upload_ok \in IF s3_manager.is_configured THEN BOOLEAN ELSE {FALSE} :
        \E consumed \in IF upload_ok THEN {0} ELSE 0..Min(archivo.content.size, MaxConsumed) :
        \E r \in {guardar_archivo_app(archivo, magic_raises, upload_ok, consumed)} :
            LET refs == {r.filename, S3Key(r.filename)}
            IN  /\ bucket' = r.new_bucket
                /\ uploads' = r.new_uploads
                /\ disk_free' = r.new_free
                /\ stored' =
                     IF r.ok
                     THEN (r.ref :> [content |-> archivo.content, es_s3 |-> r.es_s3])
                          @@ [k \in DOMAIN stored \ refs |-> stored[k]]
                     ELSE stored
                /\ last' = [op |-> "guardar_archivo", archivo |-> archivo,
                            gateway |-> s3_manager.is_configured,
                            upload_ok |-> r.s3_tried /\ upload_ok,
                            free_before |-> disk_free,
                            filename |-> r.filename, kind |-> r.validation.error,
                            configured |-> r.configured, s3_tried |-> r.s3_tried,
                            ok |-> r.ok, error |-> r.error, steps |-> r.steps,
                            ref |-> IF r.ok THEN r.ref ELSE <<>>,
                            es_s3 |-> IF r.ok THEN r.es_s3 ELSE FALSE]
                /\ UNCHANGED <<v_call, v_ret, environ, s3_manager, db, proc, session>>

SpecApp == Init /\ [][GuardarArchivoApp]_vars

\* ============================== a process environment that does not stay
\* S3_ENDPOINT, S3_KEY or S3_SECRET is set or unset in os.environ while the
\* process runs.
SetEnviron ==
    /\ environ' = ~environ
    /\ UNCHANGED <<v_call, v_ret, s3_manager, bucket, uploads, disk_free, stored,
                   db, proc, session, last>>

\* The process is started again: utils.py:579 builds the module-level
\* S3Manager from the environment of that moment.  Bucket, upload folder and
\* database outlive the process.
Restart ==
    /\ s3_manager # S3Manager
    /\ s3_manager' = S3Manager
    /\ proc' = ProcInit
    /\ UNCHANGED <<v_call, v_ret, environ, bucket, uploads, disk_free, stored,
                   db, session, last>>

GuardarArchivoBasico == GuardarArchivoWith(ArchivosBasicos, {TRUE})

NextEnv ==
    \/ GuardarArchivoBasico
    \/ VerArchivoAlumno
    \/ VerArchivoPublic
    \/ SetEnviron
    \/ Restart

SpecEnv == Init /\ [][NextEnv]_vars

\* ================================================= routes/admin.py, files
\* Keys and paths of these handlers are sequences of strings: the folder
\* names and the parts of an f-string, then the characters of an uploaded
\* file's name.  The files themselves are the byte records of above.

\* datetime.now() at one-second resolution, as the file names format it.
Timestamps == {"t1"}
\* UsuarioAlumno.grado_grupo of the alumno of the model.
grado_grupo == "1A"
\* monto of the crear_pago form.
Montos == {1}
\* monto_pagado of the registrar_pago form.
MontosPagados == {0, 1, 2}
\* The attendance report of one group and date: admin.py:303.
ReporteNames == {<<"asistencia_", "1A", "_", "20240101", ".pdf">>}
\* What doc.build leaves in the buffer.
GeneratedPdf == PdfBytes

\* request.files['archivo'] of the forms that send a PDF.
ArchivosPdf ==
    {[filename |-> report_pdf, content |-> PdfBytes],
     [filename |-> report_pdf, content |-> OversizePdf],
     [filename |-> photo_png, content |-> PdfBytes]}

\* utils.py:129, what upload_file returns: f"{endpoint}/{bucket}/{key}".
HttpUrl(key) == <<"http">> \o key

\* url.startswith('http')
IsHttp(url) == url # <<>> /\ url[1] = "http"

\* filename.lower().endswith('.pdf')
EndsWithPdf(filename) ==
    /\ Len(filename) >= 4
    /\ SubSeq(Lower(filename), Len(filename) - 3, Len(filename)) = <<".", "p", "d", "f">>

\* The id the database gives a new row of a table.
NextId(rows) ==
    IF rows = {} THEN 1
    ELSE (CHOOSE m \in {r.id : r \in rows} : \A r \in rows : r.id <= m) + 1

\* Largest id a table hands out.
MaxRows == 1

WithoutKey(f, key) == [k \in DOMAIN f \ {key} |-> f[k]]

\* delete_file calling delete_object a second time when the first call raised.
delete_file_Retry(objects, key, delete_ok) ==
    IF delete_ok
    THEN [raised |-> FALSE, attempts |-> 1, new_bucket |-> WithoutKey(objects, key)]
    ELSE [raised |-> TRUE, attempts |-> 2, new_bucket |-> objects]

\* utils.py:148-156, S3Manager.delete_file: one delete_object; whatever it
\* raises is logged and raised as S3UploadError.  Deleting a key the bucket
\* does not hold succeeds.  `objects` is the bucket as the call finds it.
delete_file(objects, key, delete_ok) ==
    IF delete_ok
    THEN [raised |-> FALSE, attempts |-> 1, new_bucket |-> WithoutKey(objects, key)]
    ELSE [raised |-> TRUE, attempts |-> 1, new_bucket |-> objects]

admin_unchanged ==
    <<v_call, v_ret, environ, s3_manager, disk_free, stored, proc, session>>

\* The process started on an empty database, bucket and upload folder; the
\* handlers of admin.py do not look at the free disk space.
AdminInit ==
    /\ v_call = NoCall
    /\ v_ret = NoCall
    /\ environ \in BOOLEAN
    /\ s3_manager = S3Manager
    /\ bucket = [n \in {} |-> Absent]
    /\ uploads = [n \in {} |-> Absent]
    /\ disk_free = GiB
    /\ stored = [n \in {} |-> Absent]
    /\ db = EmptyDb
    /\ proc = ProcInit
    /\ session = NoSession
    /\ last = NoCall

\* The alumno the forms of the profesor name (admin.py:1237, 1550) and who
\* asks for a file (alumno.py:261).
Destinatario == 1

\* alumno.py:258-282, solicitar_archivo with both fields filled in.
SolicitarArchivo ==
    /\ NextId(db.solicitudes) <= MaxRows
    /\ db' = [db EXCEPT !.solicitudes =
                 @ \cup {[id |-> NextId(db.solicitudes), alumno_id |-> Destinatario,
                          estado |-> "pendiente"]}]
    /\ last' = [op |-> "solicitar_archivo"]
    /\ UNCHANGED <<admin_unchanged, bucket, uploads>>

\* admin.py:1227-1271, crear_pago for one alumno.
CrearPagoWith(montos) ==
    \E monto \in montos :
        /\ NextId(db.pagos) <= MaxRows
        /\ db' = [db EXCEPT !.pagos =
                     @ \cup {[id |-> NextId(db.pagos), alumno_id |-> Destinatario,
                              monto_total |-> monto,
                              monto_pagado |-> 0, monto_pendiente |-> monto,
                              estado |-> "pendiente", grado_grupo |-> grado_grupo]}]
        /\ last' = [op |-> "crear_pago"]
        /\ UNCHANGED <<admin_unchanged, bucket, uploads>>

CrearPago == CrearPagoWith(Montos)

\* admin.py:1283-1368, registrar_pago.  upload_ok: s3_manager.upload_file
\* returns.  The commit of line 1352 fails when numero_recibo, unique in
\* ReciboPago, is that of an earlier recibo; the rollback takes back the rows,
\* not the file.
RegistrarPago ==
    \E pago \in db.pagos, monto_pagado \in MontosPagados, ts \in Timestamps :
    \E upload_ok \in IF s3_manager.is_configured THEN BOOLEAN ELSE {FALSE} :
        LET numero_recibo == <<"REC-", ts, "-", ToString(pago.id)>>
            nombre_archivo == <<"recibo_">> \o numero_recibo \o <<".pdf">>
            key_s3 == <<"pagos", "recibos", pago.grado_grupo>> \o nombre_archivo
            ruta_local == <<"pagos", "recibos">> \o nombre_archivo
            remote == s3_manager.is_configured /\ upload_ok
            archivo_url == IF remote THEN key_s3 ELSE ruta_local
            duplicate == \E r \in db.recibos : r.numero_recibo = numero_recibo
            pendiente == pago.monto_pendiente - monto_pagado
            nuevo_recibo == [id |-> NextId(db.recibos), pago_id |-> pago.id,
                             numero_recibo |-> numero_recibo, monto |-> monto_pagado,
                             archivo_url |-> archivo_url,
                             nombre_archivo |-> nombre_archivo]
            pago_despues == [pago EXCEPT !.monto_pagado = @ + monto_pagado,
                                         !.monto_pendiente = pendiente,
                                         !.estado = IF pendiente <= 0 THEN "completado"
                                                    ELSE "parcial"]
        IN  IF monto_pagado <= 0 \/ monto_pagado > pago.monto_pendiente THEN
                /\ last' = [op |-> "registrar_pago", reached |-> FALSE,
                            configured |-> s3_manager.is_configured,
                            upload_ok |-> FALSE, duplicate |-> FALSE,
                            committed |-> FALSE, archivo_url |-> <<>>]
                /\ UNCHANGED <<admin_unchanged, bucket, uploads, db>>
            ELSE
                /\ bucket' = IF remote THEN (key_s3 :> GeneratedPdf) @@ bucket ELSE bucket
                /\ uploads' = IF remote THEN uploads
                              ELSE (ruta_local :> GeneratedPdf) @@ uploads
                /\ db' = IF duplicate THEN db
                         ELSE [db EXCEPT !.recibos = @ \cup {nuevo_recibo},
                                         !.pagos = (@ \ {pago}) \cup {pago_despues}]
                /\ last' = [op |-> "registrar_pago", reached |-> TRUE,
                            configured |-> s3_manager.is_configured,
                            upload_ok |-> upload_ok, duplicate |-> duplicate,
                            committed |-> ~duplicate, archivo_url |-> archivo_url]
                /\ UNCHANGED admin_unchanged

\* admin.py:1500-1512 and 1581-1593: with remote storage configured the file
\* goes to upload_file, whose S3UploadError is not caught here; without it the
\* file is written under uploads/archivos_enviados.
store_archivo_enviado(content, nombre_archivo, upload_ok) ==
    LET key_s3 == <<"archivos_enviados", grado_grupo>> \o nombre_archivo
        ruta_local == <<"archivos_enviados">> \o nombre_archivo
    IN  IF s3_manager.is_configured THEN
            IF upload_ok
            THEN [raised |-> FALSE, archivo_url |-> key_s3,
                  new_bucket |-> (key_s3 :> content) @@ bucket, new_uploads |-> uploads]
            ELSE [raised |-> TRUE, archivo_url |-> <<>>,
                  new_bucket |-> bucket, new_uploads |-> uploads]
        ELSE [raised |-> FALSE, archivo_url |-> ruta_local,
              new_bucket |-> bucket, new_uploads |-> (ruta_local :> content) @@ uploads]

\* admin.py:1483-1497 and 1559-1578: the .pdf test on the name as sent,
\* validate on the name as sent, then the timestamped sanitized name.
archivo_enviado_checks(archivo, magic_raises) ==
    IF ~EndsWithPdf(archivo.filename) THEN "not_pdf"
    ELSE IF ~validate([content |-> archivo.content, pos |-> 0],
                      archivo.filename, magic_raises).ok THEN "FileValidationError"
    ELSE ""

\* admin.py:1471-1540, responder_solicitud_archivo (POST with a file).
ResponderSolicitudArchivo ==
    \E solicitud \in db.solicitudes, archivo \in ArchivosPdf, magic_raises \in BOOLEAN,
       ts \in Timestamps :
    \E upload_ok \in IF s3_manager.is_configured THEN BOOLEAN ELSE {FALSE} :
        \E rejected \in {archivo_enviado_checks(archivo, magic_raises)},
           nombre_archivo \in {<<ts, "_">> \o secure_filename(archivo.filename)} :
        \E s \in {store_archivo_enviado(archivo.content, nombre_archivo, upload_ok)} :
        LET committed == rejected = "" /\ ~s.raised
        IN  /\ NextId(db.enviados) <= MaxRows
            /\ bucket' = IF rejected = "" THEN s.new_bucket ELSE bucket
            /\ uploads' = IF rejected = "" THEN s.new_uploads ELSE uploads
            /\ db' = IF committed
                     THEN [db EXCEPT
                             !.enviados = @ \cup {[id |-> NextId(db.enviados),
                                                   solicitud_id |-> solicitud.id,
                                                   alumno_id |-> solicitud.alumno_id,
                                                   leido |-> FALSE,
                                                   archivo_url |-> s.archivo_url,
                                                   nombre_archivo |-> nombre_archivo]},
                             !.solicitudes = (@ \ {solicitud})
                                 \cup {[solicitud EXCEPT !.estado = "atendida"]}]
                     ELSE db
            /\ last' = [op |-> "responder_solicitud_archivo", reached |-> rejected = "",
                        configured |-> s3_manager.is_configured,
                        upload_ok |-> upload_ok, duplicate |-> FALSE,
                        committed |-> committed,
                        archivo_url |-> IF committed THEN s.archivo_url ELSE <<>>]
            /\ UNCHANGED admin_unchanged

\* admin.py:1546-1616, enviar_archivo_directo (POST, the alumno exists).
EnviarArchivoDirecto ==
    \E archivo \in ArchivosPdf, magic_raises \in BOOLEAN, ts \in Timestamps :
    \E upload_ok \in IF s3_manager.is_configured THEN BOOLEAN ELSE {FALSE} :
        \E rejected \in {archivo_enviado_checks(archivo, magic_raises)},
           nombre_archivo \in {<<ts, "_">> \o secure_filename(archivo.filename)} :
        \E s \in {store_archivo_enviado(archivo.content, nombre_archivo, upload_ok)} :
        LET committed == rejected = "" /\ ~s.raised
        IN  /\ NextId(db.enviados) <= MaxRows
            /\ bucket' = IF rejected = "" THEN s.new_bucket ELSE bucket
            /\ uploads' = IF rejected = "" THEN s.new_uploads ELSE uploads
            /\ db' = IF committed
                     THEN [db EXCEPT
                             !.enviados = @ \cup {[id |-> NextId(db.enviados),
                                                   solicitud_id |-> 0,
                                                   alumno_id |-> Destinatario,
                                                   leido |-> FALSE,
                                                   archivo_url |-> s.archivo_url,
                                                   nombre_archivo |-> nombre_archivo]}]
                     ELSE db
            /\ last' = [op |-> "enviar_archivo_directo", reached |-> rejected = "",
                        configured |-> s3_manager.is_configured,
                        upload_ok |-> upload_ok, duplicate |-> FALSE,
                        committed |-> committed,
                        archivo_url |-> IF committed THEN s.archivo_url ELSE <<>>]
            /\ UNCHANGED admin_unchanged

\* admin.py:1846-1930, agregar_libro (POST with the text fields filled in and
\* no miniatura): no validate, the .pdf test on the name only.
AgregarLibro ==
    \E archivo_pdf \in ArchivosPdf, ts \in Timestamps :
    \E upload_ok \in IF s3_manager.is_configured THEN BOOLEAN ELSE {FALSE} :
        LET is_pdf == EndsWithPdf(archivo_pdf.filename)
            nombre_pdf == <<"biblioteca_", ts, "_">> \o secure_filename(archivo_pdf.filename)
            pdf_url == <<"biblioteca">> \o nombre_pdf
            remote == s3_manager.is_configured /\ upload_ok
            raised == s3_manager.is_configured /\ ~upload_ok
            committed == is_pdf /\ ~raised
        IN  /\ NextId(db.libros) <= MaxRows
            /\ bucket' = IF is_pdf /\ remote
                         THEN (pdf_url :> archivo_pdf.content) @@ bucket ELSE bucket
            /\ uploads' = IF is_pdf /\ ~s3_manager.is_configured
                          THEN (pdf_url :> archivo_pdf.content) @@ uploads ELSE uploads
            /\ db' = IF committed
                     THEN [db EXCEPT !.libros = @ \cup {[id |-> NextId(db.libros),
                                                         archivo_pdf_url |-> pdf_url]}]
                     ELSE db
            /\ last' = [op |-> "agregar_libro", reached |-> is_pdf,
                        configured |-> s3_manager.is_configured,
                        upload_ok |-> upload_ok, duplicate |-> FALSE,
                        committed |-> committed,
                        archivo_url |-> IF committed THEN pdf_url ELSE <<>>]
            /\ UNCHANGED admin_unchanged

NextUpload ==
    \/ SolicitarArchivo
    \/ CrearPago
    \/ RegistrarPago
    \/ ResponderSolicitudArchivo
    \/ EnviarArchivoDirecto
    \/ AgregarLibro

SpecUpload == AdminInit /\ [][NextUpload]_vars

\* admin.py:197-339, generar_pdf_asistencia once the PDF is built: the upload
\* is tried when configured and its failure logged, the local copy is written
\* in every case, the row holds the URL or the local path.
GenerarPdfAsistencia ==
    \E filename \in ReporteNames :
    \E upload_ok \in IF s3_manager.is_configured THEN BOOLEAN ELSE {FALSE} :
        LET s3_key == <<"reportes">> \o filename
            remote == s3_manager.is_configured /\ upload_ok
            local_path == <<"reportes">> \o filename
        IN  /\ NextId(db.reportes) <= MaxRows
            /\ bucket' = IF remote THEN (s3_key :> GeneratedPdf) @@ bucket ELSE bucket
            /\ uploads' = (local_path :> GeneratedPdf) @@ uploads
            /\ db' = [db EXCEPT !.reportes =
                         @ \cup {[id |-> NextId(db.reportes),
                                  archivo_url |-> IF remote THEN HttpUrl(s3_key)
                                                  ELSE local_path,
                                  nombre_archivo |-> filename]}]
            /\ last' = [op |-> "generar_pdf_asistencia"]
            /\ UNCHANGED admin_unchanged

\* admin.py:1088-1108 with utils.py:435-451, generar_pdf_boleta: a new
\* S3Manager() decides, the local copy is written in every case.
GenerarBoleta ==
    \E ts \in Timestamps :
    \E upload_ok \in IF S3Manager.is_configured THEN BOOLEAN ELSE {FALSE} :
        LET filename == <<"boleta_", grado_grupo, "_", "alumno", "_", ts, ".pdf">>
            s3_key == <<"boletas">> \o filename
            remote == S3Manager.is_configured /\ upload_ok
            local_path == <<"boletas">> \o filename
        IN  /\ NextId(db.boletas) <= MaxRows
            /\ bucket' = IF remote THEN (s3_key :> GeneratedPdf) @@ bucket ELSE bucket
            /\ uploads' = (local_path :> GeneratedPdf) @@ uploads
            /\ db' = [db EXCEPT !.boletas =
                         @ \cup {[id |-> NextId(db.boletas),
                                  archivo_url |-> IF remote THEN HttpUrl(s3_key)
                                                  ELSE local_path,
                                  nombre_archivo |-> filename]}]
            /\ last' = [op |-> "generar_boleta"]
            /\ UNCHANGED admin_unchanged

\* admin.py:414-434, eliminar_reporte.
EliminarReporte ==
    \E reporte \in db.reportes :
    \E delete_ok \in IF IsHttp(reporte.archivo_url) /\ s3_manager.is_configured
                     THEN BOOLEAN ELSE {TRUE} :
        LET called == IsHttp(reporte.archivo_url) /\ s3_manager.is_configured
            key == <<"reportes">> \o reporte.nombre_archivo
            d == delete_file(bucket, key, delete_ok)
        IN  /\ bucket' = IF called THEN d.new_bucket ELSE bucket
            /\ db' = [db EXCEPT !.reportes = @ \ {reporte}]
            /\ last' = [op |-> "eliminar_reporte", rows |-> {reporte},
                        keys |-> IF called THEN <<key>> ELSE <<>>,
                        attempts |-> IF called THEN d.attempts ELSE 0,
                        raised |-> called /\ d.raised]
            /\ UNCHANGED <<admin_unchanged, uploads>>

\* admin.py:1170-1189, eliminar_boleta_guardada.
EliminarBoletaGuardada ==
    \E boleta \in db.boletas :
    \E delete_ok \in IF boleta.archivo_url[1] = "boletas" /\ s3_manager.is_configured
                     THEN BOOLEAN ELSE {TRUE} :
        LET called == boleta.archivo_url[1] = "boletas" /\ s3_manager.is_configured
            d == delete_file(bucket, boleta.archivo_url, delete_ok)
        IN  /\ bucket' = IF called THEN d.new_bucket ELSE bucket
            /\ db' = [db EXCEPT !.boletas = @ \ {boleta}]
            /\ last' = [op |-> "eliminar_boleta_guardada", rows |-> {boleta},
                        keys |-> IF called THEN <<boleta.archivo_url>> ELSE <<>>,
                        attempts |-> IF called THEN d.attempts ELSE 0,
                        raised |-> called /\ d.raised]
            /\ UNCHANGED <<admin_unchanged, uploads>>

\* The rows of a set in the order of their ids.
RECURSIVE RowsById(_)
RowsById(rows) ==
    IF rows = {} THEN <<>>
    ELSE LET r == CHOOSE x \in rows : \A y \in rows : x.id <= y.id
         IN  <<r>> \o RowsById(rows \ {r})

\* admin.py:1424-1432, the loop over pago.recibos: the bucket it leaves and
\* the delete_file calls it made.
RECURSIVE delete_recibos(_, _, _)
delete_recibos(recibos, delete_ok, acc) ==
    IF recibos = <<>> THEN acc
    ELSE LET recibo == Head(recibos)
             d == delete_file(acc.new_bucket, recibo.archivo_url, delete_ok)
         IN  delete_recibos(Tail(recibos), delete_ok,
                 [new_bucket |-> d.new_bucket,
                  keys |-> Append(acc.keys, recibo.archivo_url),
                  attempts |-> acc.attempts + d.attempts,
                  raised |-> acc.raised \/ d.raised])

\* admin.py:1417-1446, eliminar_pago.  delete_ok: the remote store answers
\* during this request.
EliminarPago ==
    \E pago \in db.pagos :
        LET recibos_a_eliminar == {r \in db.recibos : r.pago_id = pago.id}
            called == s3_manager.is_configured /\ recibos_a_eliminar # {}
        IN  \E delete_ok \in IF called THEN BOOLEAN ELSE {TRUE} :
            LET d == IF s3_manager.is_configured
                     THEN delete_recibos(RowsById(recibos_a_eliminar), delete_ok,
                              [new_bucket |-> bucket, keys |-> <<>>, attempts |-> 0,
                               raised |-> FALSE])
                     ELSE [new_bucket |-> bucket, keys |-> <<>>, attempts |-> 0,
                           raised |-> FALSE]
            IN  /\ bucket' = d.new_bucket
                /\ db' = [db EXCEPT !.recibos = @ \ recibos_a_eliminar,
                                    !.pagos = @ \ {pago}]
                /\ last' = [op |-> "eliminar_pago", rows |-> {pago} \cup recibos_a_eliminar,
                            keys |-> d.keys, attempts |-> d.attempts,
                            raised |-> d.raised]
                /\ UNCHANGED <<admin_unchanged, uploads>>

NextDelete ==
    \/ CrearPago
    \/ RegistrarPago
    \/ GenerarPdfAsistencia
    \/ GenerarBoleta
    \/ EliminarReporte
    \/ EliminarBoletaGuardada
    \/ EliminarPago

SpecDelete == AdminInit /\ [][NextDelete]_vars

\* ============================== downloads of the generated documents
\* 'uploads/' in archivo_url, for a reference made of folder and name parts.
ContainsUploads(url) == \E i \in 1..Len(url) : url[i] = "uploads"

\* send_from_directory(os.path.join('uploads', carpeta_local), nombre_archivo):
\* the file, or NotFound.
send_from_directory(carpeta_local, nombre_archivo) ==
    LET path == <<carpeta_local>> \o nombre_archivo
    IN  IF path \in DOMAIN uploads
        THEN [raised |-> FALSE, response |-> Found(uploads[path])]
        ELSE [raised |-> TRUE, response |-> [status |-> "not_found"]]

\* utils.py:565-576, descargar_archivo: a new S3Manager(); a URL (or a
\* reference holding 'uploads/') is handed whole to download_file as the key,
\* and the S3UploadError of download_file is not caught.
descargar_archivo(archivo_url, nombre_archivo, carpeta_local, download_ok) ==
    IF archivo_url # <<>> /\ (IsHttp(archivo_url) \/ ContainsUploads(archivo_url))
       /\ S3Manager.is_configured
    THEN LET d == download_file(archivo_url, download_ok)
         IN  IF d.raised THEN [status |-> "S3UploadError"] ELSE Found(d.body)
    ELSE send_from_directory(carpeta_local, nombre_archivo).response

\* admin.py:1162-1166, descargar_boleta_guardada.
DescargarBoletaGuardada ==
    \E boleta \in db.boletas :
    \E download_ok \in IF IsHttp(boleta.archivo_url) /\ S3Manager.is_configured
                       THEN BOOLEAN ELSE {TRUE} :
        /\ last' = [op |-> "descargar_boleta_guardada", row |-> boleta,
                    download_ok |-> download_ok,
                    response |-> descargar_archivo(boleta.archivo_url,
                                     boleta.nombre_archivo, "boletas", download_ok)]
        /\ UNCHANGED <<admin_unchanged, bucket, uploads, db>>

\* admin.py:390-410, descargar_reporte_guardado: the same choice made with the
\* module's s3_manager; whatever is raised ends in a flash and a redirect.
descargar_reporte_guardado(reporte, download_ok) ==
    IF reporte.archivo_url = <<>> THEN [status |-> "redirect"]
    ELSE IF IsHttp(reporte.archivo_url) /\ s3_manager.is_configured
    THEN LET d == download_file(reporte.archivo_url, download_ok)
         IN  IF d.raised THEN [status |-> "redirect"] ELSE Found(d.body)
    ELSE LET f == send_from_directory("reportes", reporte.nombre_archivo)
         IN  IF f.raised THEN [status |-> "redirect"] ELSE f.response

DescargarReporteGuardado ==
    \E reporte \in db.reportes :
    \E download_ok \in IF IsHttp(reporte.archivo_url) /\ s3_manager.is_configured
                       THEN BOOLEAN ELSE {TRUE} :
        /\ last' = [op |-> "descargar_reporte_guardado", row |-> reporte,
                    download_ok |-> download_ok,
                    response |-> descargar_reporte_guardado(reporte, download_ok)]
        /\ UNCHANGED <<admin_unchanged, bucket, uploads, db>>

NextReports ==
    \/ GenerarPdfAsistencia
    \/ GenerarBoleta
    \/ DescargarBoletaGuardada
    \/ DescargarReporteGuardado
    \/ EliminarReporte
    \/ EliminarBoletaGuardada

SpecReports == AdminInit /\ [][NextReports]_vars

\* ===================================== records that own an uploaded file
\* request.files['archivo'] of subir_recurso.
ArchivosRecurso == {[filename |-> report_pdf, content |-> PdfBytes]}

\* admin.py:854-885, subir_recurso with a file and a title: guardar_archivo,
\* then the Recurso row with the reference it returned; its error ends in a
\* flash.
SubirRecurso ==
    \E archivo \in ArchivosRecurso :
    \E upload_ok \in IF S3Manager.is_configured THEN BOOLEAN ELSE {FALSE} :
        \E r \in {guardar_archivo(archivo, FALSE, upload_ok, 0, TRUE, TRUE)} :
            /\ NextId(db.recursos) <= MaxRows
            /\ bucket' = r.new_bucket
            /\ uploads' = r.new_uploads
            /\ disk_free' = r.new_free
            /\ db' = IF r.ok
                     THEN [db EXCEPT !.recursos =
                              @ \cup {[id |-> NextId(db.recursos), archivo_url |-> r.ref]}]
                     ELSE db
            /\ last' = [op |-> "subir_recurso"]
            /\ UNCHANGED <<v_call, v_ret, environ, s3_manager, stored, proc, session>>

\* admin.py:887-896, eliminar_recurso: the row only.
EliminarRecurso ==
    \E recurso \in db.recursos :
        /\ db' = [db EXCEPT !.recursos = @ \ {recurso}]
        /\ last' = [op |-> "eliminar_recurso", rows |-> {recurso}, keys |-> <<>>,
                    attempts |-> 0, raised |-> FALSE]
        /\ UNCHANGED <<admin_unchanged, bucket, uploads>>

\* admin.py:1981-2002, eliminar_libro of a libro without miniatura.
EliminarLibro ==
    \E libro \in db.libros :
    \E delete_ok \in IF s3_manager.is_configured THEN BOOLEAN ELSE {TRUE} :
        LET called == s3_manager.is_configured /\ libro.archivo_pdf_url # <<>>
            d == delete_file(bucket, libro.archivo_pdf_url, delete_ok)
        IN  /\ bucket' = IF called THEN d.new_bucket ELSE bucket
            /\ db' = [db EXCEPT !.libros = @ \ {libro}]
            /\ last' = [op |-> "eliminar_libro", rows |-> {libro},
                        keys |-> IF called THEN <<libro.archivo_pdf_url>> ELSE <<>>,
                        attempts |-> IF called THEN d.attempts ELSE 0,
                        raised |-> called /\ d.raised]
            /\ UNCHANGED <<admin_unchanged, uploads>>

NextOwners ==
    \/ SubirRecurso
    \/ EliminarRecurso
    \/ AgregarLibro
    \/ EliminarLibro
    \/ GenerarPdfAsistencia
    \/ GenerarBoleta
    \/ EliminarReporte
    \/ EliminarBoletaGuardada

SpecOwners == AdminInit /\ [][NextOwners]_vars

\* ========================================= registrar_pago, overlapping
\* float(request.form.get('monto')) of crear_pago, which the handler does not
\* test; amounts are whole numbers here.
MontosForm == {-1, 0, 2}
\* datetime.now() of two requests that start in different seconds.
Seconds == {"t1", "t2"}
\* Most requests the worker serves at a time, most recibos of the table.
MaxRequests == 2
MaxRecibos == 2

CrearPagoForm == CrearPagoWith(MontosForm)

\* admin.py:1284-1323, registrar_pago up to the call of upload_file, where the
\* gevent worker goes on to other requests: the Pago as this request's
\* session loaded it, the amount tests, the timestamp.
RegistrarPagoBegin ==
    \E pago \in db.pagos, monto_pagado \in MontosPagados, ts \in Seconds :
        IF monto_pagado <= 0 \/ monto_pagado > pago.monto_pendiente THEN
            /\ last' = [op |-> "registrar_pago", reached |-> FALSE,
                        configured |-> s3_manager.is_configured,
                        upload_ok |-> FALSE, duplicate |-> FALSE,
                        committed |-> FALSE, archivo_url |-> <<>>]
            /\ UNCHANGED <<admin_unchanged, bucket, uploads, db>>
        ELSE
            /\ s3_manager.is_configured
            /\ Cardinality(proc.requests) < MaxRequests
            /\ NextId(db.recibos) + Cardinality(proc.requests) <= MaxRecibos
            /\ proc' = [proc EXCEPT !.requests =
                           @ \cup {[pago |-> pago, monto_pagado |-> monto_pagado,
                                    ts |-> ts]}]
            /\ last' = [op |-> "registrar_pago_begin"]
            /\ UNCHANGED <<v_call, v_ret, environ, s3_manager, disk_free, stored,
                           bucket, uploads, db, session>>

\* admin.py:1323-1368, the rest of the request: the upload returns or raises,
\* the recibo is added, the amounts of the Pago are computed from the values
\* loaded at the start and written by the commit.  A numero_recibo already in
\* the table makes the commit fail and the rollback leaves the tables alone.
RegistrarPagoEnd ==
    \E req \in proc.requests, upload_ok \in BOOLEAN :
        LET pago == req.pago
            numero_recibo == <<"REC-", req.ts, "-", ToString(pago.id)>>
            nombre_archivo == <<"recibo_">> \o numero_recibo \o <<".pdf">>
            key_s3 == <<"pagos", "recibos", pago.grado_grupo>> \o nombre_archivo
            ruta_local == <<"pagos", "recibos">> \o nombre_archivo
            archivo_url == IF upload_ok THEN key_s3 ELSE ruta_local
            duplicate == \E r \in db.recibos : r.numero_recibo = numero_recibo
            pendiente == pago.monto_pendiente - req.monto_pagado
            nuevo_recibo == [id |-> NextId(db.recibos), pago_id |-> pago.id,
                             numero_recibo |-> numero_recibo,
                             monto |-> req.monto_pagado,
                             archivo_url |-> archivo_url,
                             nombre_archivo |-> nombre_archivo]
            pago_despues == [pago EXCEPT !.monto_pagado = @ + req.monto_pagado,
                                         !.monto_pendiente = pendiente,
                                         !.estado = IF pendiente <= 0 THEN "completado"
                                                    ELSE "parcial"]
        IN  /\ bucket' = IF upload_ok THEN (key_s3 :> GeneratedPdf) @@ bucket ELSE bucket
            /\ uploads' = IF upload_ok THEN uploads
                          ELSE (ruta_local :> GeneratedPdf) @@ uploads
            /\ db' = IF duplicate THEN db
                     ELSE [db EXCEPT !.recibos = @ \cup {nuevo_recibo},
                                     !.pagos = {p \in @ : p.id # pago.id}
                                                   \cup {pago_despues}]
            /\ proc' = [proc EXCEPT !.requests = @ \ {req}]
            /\ last' = [op |-> "registrar_pago", reached |-> TRUE,
                        configured |-> s3_manager.is_configured,
                        upload_ok |-> upload_ok, duplicate |-> duplicate,
                        committed |-> ~duplicate, archivo_url |-> archivo_url]
            /\ UNCHANGED <<v_call, v_ret, environ, s3_manager, disk_free, stored,
                           session>>

NextPagos ==
    \/ CrearPagoForm
    \/ RegistrarPago
    \/ RegistrarPagoBegin
    \/ RegistrarPagoEnd

SpecPagos == AdminInit /\ [][NextPagos]_vars

\* ================================================================ chat
\* utils.py:581, chat_limiter = RateLimiter(max_requests=10, window_seconds=60)
chat_max_requests == 10
chat_window_seconds == 60

\* RateLimiter.is_allowed with the limit tested after the new timestamp is
\* counted in.
is_allowed_CountFirst(requests, key, now, max_requests, window_seconds) ==
    LET window_start == now - window_seconds
        old == IF key \in DOMAIN requests THEN requests[key] ELSE <<>>
        kept == SelectSeq(old, LAMBDA timestamp : timestamp > window_start)
    IN  IF Len(kept) > max_requests
        THEN [allowed |-> FALSE, requests |-> (key :> kept) @@ requests]
        ELSE [allowed |-> TRUE, requests |-> (key :> Append(kept, now)) @@ requests]

\* utils.py:286-299, RateLimiter.is_allowed(key) at time.time() = now, on the
\* dict self.requests: what it returns and the dict it leaves.
is_allowed(requests, key, now, max_requests, window_seconds) ==
    LET window_start == now - window_seconds
        old == IF key \in DOMAIN requests THEN requests[key] ELSE <<>>
        kept == SelectSeq(old, LAMBDA timestamp : timestamp > window_start)
    IN  IF Len(kept) >= max_requests
        THEN [allowed |-> FALSE, requests |-> (key :> kept) @@ requests]
        ELSE [allowed |-> TRUE, requests |-> (key :> Append(kept, now)) @@ requests]

\* session['alumno_id'] of the logged-in students, all of one group, and of
\* those who send chat messages.
Alumnos == {1, 2}
Remitentes == {1}
\* Latest time.time() of the model, most Mensaje rows.
MaxClock == 3
MaxMensajes == 2

alumno_key(alumno_id) == "alumno_" \o ToString(alumno_id)

\* Configuracion.query.get('chat_activo'); chat_events.py:140-141.
chat_activo ==
    "chat_activo" \notin DOMAIN db.configuracion
        \/ db.configuracion["chat_activo"] = "True"

chat_unchanged ==
    <<v_call, v_ret, environ, s3_manager, bucket, uploads, disk_free, stored, session>>

\* time.time() moves on.
Tick ==
    /\ proc.time < MaxClock
    /\ proc' = [proc EXCEPT !.time = @ + 1]
    /\ UNCHANGED <<chat_unchanged, db, last>>

\* admin.py:949-968, toggle_chat: a missing row is created as 'True' and
\* toggled at once.
ToggleChat ==
    LET valor == IF "chat_activo" \in DOMAIN db.configuracion
                 THEN db.configuracion["chat_activo"] ELSE "True"
        nuevo == IF valor = "True" THEN "False" ELSE "True"
    IN  /\ db' = [db EXCEPT !.configuracion = ("chat_activo" :> nuevo) @@ @]
        /\ last' = [op |-> "toggle_chat"]
        /\ UNCHANGED <<chat_unchanged, proc>>

NuevoMensaje(alumno_id) ==
    [id |-> NextId(db.mensajes), alumno_id |-> alumno_id, grado_grupo |-> grado_grupo]

SendResult(op, alumno_id, status, persisted, broadcast) ==
    [op |-> op, alumno_id |-> alumno_id, status |-> status,
     persisted |-> persisted, broadcast |-> broadcast]

\* alumno.py:190-230, the HTTP route enviar_mensaje behind require_alumno.
\* vacio: the text is empty once stripped; permitido: what
\* chat_moderator.procesar_mensaje answers.
EnviarMensaje ==
    \E alumno_id \in Remitentes, vacio \in BOOLEAN, permitido \in BOOLEAN :
    \E lim \in {is_allowed(proc.chat_limiter, alumno_key(alumno_id), proc.time,
                           chat_max_requests, chat_window_seconds)} :
        LET status == IF ~lim.allowed THEN 429
                      ELSE IF vacio THEN 400
                      ELSE IF ~permitido THEN 403
                      ELSE 200
        IN  /\ NextId(db.mensajes) <= MaxMensajes
            /\ proc' = [proc EXCEPT !.chat_limiter = lim.requests]
            /\ db' = IF status = 200
                     THEN [db EXCEPT !.mensajes = @ \cup {NuevoMensaje(alumno_id)}]
                     ELSE db
            /\ last' = SendResult("enviar_mensaje", alumno_id, status, status = 200, FALSE)
            /\ UNCHANGED chat_unchanged

\* chat_events.py:122-188, the socket handler of 'enviar_mensaje' for a
\* session that holds alumno_id.
HandleEnviarMensaje ==
    \E alumno_id \in Remitentes, vacio \in BOOLEAN, permitido \in BOOLEAN :
        LET status == IF vacio THEN "error"
                      ELSE IF ~chat_activo THEN "mensaje_bloqueado"
                      ELSE IF ~permitido THEN "mensaje_bloqueado"
                      ELSE "nuevo_mensaje"
            sent == status = "nuevo_mensaje"
        IN  /\ NextId(db.mensajes) <= MaxMensajes
            /\ db' = IF sent
                     THEN [db EXCEPT !.mensajes = @ \cup {NuevoMensaje(alumno_id)}]
                     ELSE db
            /\ last' = SendResult("handle_enviar_mensaje", alumno_id, status, sent, sent)
            /\ UNCHANGED <<chat_unchanged, proc>>

\* app.py:1265-1290, enviar_mensaje of the single-file application.
EnviarMensajeApp ==
    \E alumno_id \in Remitentes, vacio \in BOOLEAN :
    \E lim \in {is_allowed(proc.chat_limiter, alumno_key(alumno_id), proc.time,
                           chat_max_requests, chat_window_seconds)} :
        LET status == IF ~lim.allowed THEN 429
                      ELSE IF ~chat_activo THEN 403
                      ELSE IF vacio THEN 400
                      ELSE 200
        IN  /\ NextId(db.mensajes) <= MaxMensajes
            /\ proc' = [proc EXCEPT !.chat_limiter = lim.requests]
            /\ db' = IF status = 200
                     THEN [db EXCEPT !.mensajes = @ \cup {NuevoMensaje(alumno_id)}]
                     ELSE db
            /\ last' = SendResult("enviar_mensaje_app", alumno_id, status, status = 200, FALSE)
            /\ UNCHANGED chat_unchanged

NextChat ==
    \/ ToggleChat
    \/ EnviarMensaje
    \/ HandleEnviarMensaje
    \/ EnviarMensajeApp

SpecChat == AdminInit /\ [][NextChat]_vars

\* ========================================================= RateLimiter
\* A RateLimiter(max_requests=LimiterMaxRequests,
\* window_seconds=LimiterWindowSeconds) and the keys it is asked about.
LimiterMaxRequests == 2
LimiterWindowSeconds == 2
LimiterKeys == {"alumno_1", "alumno_2"}

\* One call of is_allowed(key).
IsAllowed ==
    \E key \in LimiterKeys :
    \E r \in {is_allowed(proc.limiter, key, proc.time,
                         LimiterMaxRequests, LimiterWindowSeconds)} :
        /\ proc' = [proc EXCEPT
                      !.limiter = r.requests,
                      !.accepted = IF r.allowed
                                   THEN Append(@, [key |-> key, t |-> proc.time])
                                   ELSE @]
        /\ last' = [op |-> "is_allowed", key |-> key, now |-> proc.time,
                    allowed |-> r.allowed]
        /\ UNCHANGED <<chat_unchanged, db>>

NextLimiter ==
    \/ Tick
    \/ IsAllowed

SpecLimiter == AdminInit /\ [][NextLimiter]_vars

\* ======================================================= chat presence
\* The sessions that open a socket: a logged-in student (auth.py:57-61), or a
\* session without 'alumno_id'.
Grupos == {"1A", "1B"}
AlumnosChat == {1, 2, 3}
alumno_nombre(alumno_id) == "alumno " \o ToString(alumno_id)
AlumnoSession(alumno_id, grado) ==
    [tipo_usuario |-> "alumno", alumno_id |-> alumno_id,
     alumno_nombre |-> alumno_nombre(alumno_id),
     alumno_grado |-> grado]
\* Student 1 was moved from one group to the other (admin.py:107) between two
\* logins, so sessions of both groups exist for them.
SocketSessions ==
    {AlumnoSession(1, "1A"), AlumnoSession(2, "1A"), AlumnoSession(3, "1B"),
     AlumnoSession(1, "1B"), NoSession}

\* Most socket connections opened in a run.
MaxSids == 3

DictGet(d, k) == IF k \in DOMAIN d THEN d[k] ELSE <<>>

\* chat_events.py:29-44, handle_connect of an alumno session: the dict it
\* leaves and the total_conectados it emits.
handle_connect(conectados, sid, socket_session) ==
    LET grupo == socket_session.alumno_grado
        con_grupo == (sid :> [nombre |-> socket_session.alumno_nombre,
                              alumno_id |-> socket_session.alumno_id])
                         @@ DictGet(conectados, grupo)
        despues == (grupo :> con_grupo) @@ conectados
    IN  [usuarios_conectados |-> despues,
         total_conectados |-> Cardinality(DOMAIN despues[grupo])]

\* handle_disconnect that leaves the empty dict of a group in place.
handle_disconnect_KeepEmpty(conectados, escribiendo, sid, socket_session) ==
    LET grupo == socket_session.alumno_grado
        despues ==
            IF grupo \in DOMAIN conectados
            THEN (grupo :> WithoutKey(conectados[grupo], sid)) @@ conectados
            ELSE conectados
        esc_despues ==
            IF grupo \in DOMAIN escribiendo
            THEN (grupo :> WithoutKey(escribiendo[grupo], socket_session.alumno_id))
                     @@ escribiendo
            ELSE escribiendo
    IN  [usuarios_conectados |-> despues,
         usuarios_escribiendo |-> esc_despues,
         total_conectados |-> Cardinality(DOMAIN DictGet(despues, grupo))]

\* chat_events.py:60-83, handle_disconnect of an alumno session.
handle_disconnect(conectados, escribiendo, sid, socket_session) ==
    LET grupo == socket_session.alumno_grado
        sin_sid == WithoutKey(conectados[grupo], sid)
        despues ==
            IF grupo \in DOMAIN conectados
            THEN IF DOMAIN sin_sid = {}
                 THEN WithoutKey(conectados, grupo)
                 ELSE (grupo :> sin_sid) @@ conectados
            ELSE conectados
        esc_despues ==
            IF grupo \in DOMAIN escribiendo
            THEN (grupo :> WithoutKey(escribiendo[grupo], socket_session.alumno_id))
                     @@ escribiendo
            ELSE escribiendo
    IN  [usuarios_conectados |-> despues,
         usuarios_escribiendo |-> esc_despues,
         total_conectados |-> Cardinality(DOMAIN DictGet(despues, grupo))]

\* A client opens a socket; chat_events.py:14-51.  A session without
\* 'alumno_id' is refused and no connection exists.
HandleConnect ==
    \E socket_session \in SocketSessions :
        LET sid == proc.next_sid
        IN  /\ sid <= MaxSids
            /\ IF "alumno_id" \notin DOMAIN socket_session THEN
                   /\ proc' = [proc EXCEPT !.next_sid = @ + 1]
                   /\ last' = [op |-> "connect", sid |-> sid, accepted |-> FALSE,
                               grado_grupo |-> "", total_conectados |-> 0]
               ELSE
                   \E c \in {handle_connect(proc.usuarios_conectados, sid, socket_session)} :
                       /\ proc' = [proc EXCEPT
                                     !.next_sid = @ + 1,
                                     !.sockets = (sid :> socket_session) @@ @,
                                     !.usuarios_conectados = c.usuarios_conectados]
                       /\ last' = [op |-> "connect", sid |-> sid, accepted |-> TRUE,
                                   grado_grupo |-> socket_session.alumno_grado,
                                   total_conectados |-> c.total_conectados]
            /\ UNCHANGED <<chat_unchanged, db>>

\* A socket closes; chat_events.py:54-83.
HandleDisconnect ==
    \E sid \in DOMAIN proc.sockets :
    \E d \in {handle_disconnect(proc.usuarios_conectados, proc.usuarios_escribiendo,
                                sid, proc.sockets[sid])} :
        /\ proc' = [proc EXCEPT
                      !.sockets = WithoutKey(@, sid),
                      !.usuarios_conectados = d.usuarios_conectados,
                      !.usuarios_escribiendo = d.usuarios_escribiendo]
        /\ last' = [op |-> "disconnect", sid |-> sid, accepted |-> TRUE,
                    grado_grupo |-> proc.sockets[sid].alumno_grado,
                    total_conectados |-> d.total_conectados]
        /\ UNCHANGED <<chat_unchanged, db>>

\* chat_events.py:191-218, handle_usuario_escribiendo.
HandleUsuarioEscribiendo ==
    \E sid \in DOMAIN proc.sockets, esta_escribiendo \in BOOLEAN :
        LET socket_session == proc.sockets[sid]
            grupo == socket_session.alumno_grado
            antes == DictGet(proc.usuarios_escribiendo, grupo)
            despues == IF esta_escribiendo
                       THEN (socket_session.alumno_id :> socket_session.alumno_nombre) @@ antes
                       ELSE WithoutKey(antes, socket_session.alumno_id)
        IN  /\ proc' = [proc EXCEPT !.usuarios_escribiendo = (grupo :> despues) @@ @]
            /\ last' = [op |-> "usuario_escribiendo", sid |-> sid, accepted |-> TRUE,
                        grado_grupo |-> grupo, total_conectados |-> 0]
            /\ UNCHANGED <<chat_unchanged, db>>

NextPresence ==
    \/ HandleConnect
    \/ HandleDisconnect
    \/ HandleUsuarioEscribiendo

SpecPresence == AdminInit /\ [][NextPresence]_vars

\* ================================================== sessions and roles
\* utils.py:61-72, the tests of require_role(role) on a session: TRUE when
\* the wrapped view is called.
require_role(role, ses) ==
    /\ ses.tipo_usuario = role
    /\ role = "profesor" => "user" \in DOMAIN ses
    /\ role = "alumno" => "alumno_id" \in DOMAIN ses

require_profesor(ses) == require_role("profesor", ses)
require_alumno(ses) == require_role("alumno", ses)

\* The redirect of utils.py:63, 67 or 71: the view is not called.
Redirected(view) ==
    /\ last' = [op |-> "redirect", view |-> view]
    /\ UNCHANGED <<admin_unchanged, bucket, uploads, db>>

\* auth.py:11-40, login: a profesor session is sent on to the dashboard; the
\* right password adds 'user' and sets tipo_usuario, leaving the other keys.
Login ==
    \E es_valida \in BOOLEAN :
        /\ session' = IF session.tipo_usuario # "profesor" /\ es_valida
                      THEN ("user" :> "admin") @@ ("tipo_usuario" :> "profesor")
                               @@ session
                      ELSE session
        /\ last' = [op |-> "login", es_valida |-> es_valida]
        /\ UNCHANGED <<v_call, v_ret, environ, s3_manager, bucket, uploads,
                       disk_free, stored, db, proc>>

\* auth.py:43-69, login_alumnos.
LoginAlumnos ==
    \E alumno_id \in Alumnos, es_valida \in BOOLEAN :
        /\ session' = IF session.tipo_usuario # "alumno" /\ es_valida
                      THEN AlumnoSession(alumno_id, grado_grupo) @@ session
                      ELSE session
        /\ last' = [op |-> "login_alumnos", es_valida |-> es_valida]
        /\ UNCHANGED <<v_call, v_ret, environ, s3_manager, bucket, uploads,
                       disk_free, stored, db, proc>>

\* auth.py:72-82, logout.
Logout ==
    /\ session' = NoSession
    /\ last' = [op |-> "logout"]
    /\ UNCHANGED <<v_call, v_ret, environ, s3_manager, bucket, uploads,
                   disk_free, stored, db, proc>>

\* alumno.py:1063-1067, logout of the alumno blueprint.
LogoutAlumno ==
    /\ session' = NoSession
    /\ last' = [op |-> "logout_alumno"]
    /\ UNCHANGED <<v_call, v_ret, environ, s3_manager, bucket, uploads,
                   disk_free, stored, db, proc>>

\* The views of the profesor that make the records, behind require_profesor
\* (admin.py:1226, 1282, 1547).
CrearPagoProfesor ==
    IF require_profesor(session) THEN CrearPago ELSE Redirected("crear_pago")

RegistrarPagoProfesor ==
    IF require_profesor(session) THEN RegistrarPago ELSE Redirected("registrar_pago")

EnviarArchivoDirectoProfesor ==
    IF require_profesor(session) THEN EnviarArchivoDirecto
    ELSE Redirected("enviar_archivo_directo")

\* alumno.py:128-146 and 324-342: the object under the reference when the
\* store is configured, else the file of that name in the local folder;
\* whatever is raised ends in a flash and a redirect.
descargar_de_alumno(row, carpeta, download_ok) ==
    IF row.archivo_url # <<>> /\ s3_manager.is_configured THEN
        LET d == download_file(row.archivo_url, download_ok)
        IN  IF d.raised THEN [status |-> "redirect"] ELSE Found(d.body)
    ELSE
        LET path == carpeta \o row.nombre_archivo
        IN  IF path \in DOMAIN uploads THEN Found(uploads[path])
            ELSE [status |-> "redirect"]

\* alumno.py:119-146, descargar_recibo_alumno.
DescargarReciboAlumno ==
    \E recibo \in db.recibos, download_ok \in BOOLEAN :
        IF ~require_alumno(session) THEN Redirected("descargar_recibo_alumno")
        ELSE
            \E pago \in {p \in db.pagos : p.id = recibo.pago_id} :
                /\ last' = [op |-> "descargar_recibo_alumno",
                            alumno_id |-> session.alumno_id,
                            path |-> recibo.archivo_url,
                            response |->
                                IF pago.alumno_id # session.alumno_id
                                THEN [status |-> "no_permiso"]
                                ELSE descargar_de_alumno(recibo, <<"pagos", "recibos">>,
                                                         download_ok)]
                /\ UNCHANGED <<admin_unchanged, bucket, uploads, db>>

\* alumno.py:309-342, descargar_archivo_alumno: the file of its owner is
\* marked as read before it is fetched.
DescargarArchivoAlumno ==
    \E archivo \in db.enviados, download_ok \in BOOLEAN :
        IF ~require_alumno(session) THEN Redirected("descargar_archivo_alumno")
        ELSE
            LET permitido == archivo.alumno_id = session.alumno_id
            IN  /\ db' = IF permitido
                         THEN [db EXCEPT !.enviados =
                                  (@ \ {archivo}) \cup {[archivo EXCEPT !.leido = TRUE]}]
                         ELSE db
                /\ last' = [op |-> "descargar_archivo_alumno",
                            alumno_id |-> session.alumno_id,
                            path |-> archivo.archivo_url,
                            response |->
                                IF ~permitido THEN [status |-> "no_permiso"]
                                ELSE descargar_de_alumno(archivo, <<"archivos_enviados">>,
                                                         download_ok)]
                /\ UNCHANGED <<admin_unchanged, bucket, uploads>>

\* alumno.py:391-448, ver_archivo behind require_alumno, asked for any path
\* under which the stores hold something.
VerArchivoSesion ==
    \E archivo_path \in DOMAIN uploads \cup DOMAIN bucket :
    \E download_ok \in IF RemoteLookup(archivo_path) THEN BOOLEAN ELSE {TRUE} :
        IF ~require_alumno(session) THEN Redirected("ver_archivo_alumno")
        ELSE
            /\ last' = [op |-> "ver_archivo_alumno",
                        alumno_id |-> session.alumno_id,
                        path |-> archivo_path,
                        response |-> ver_archivo_alumno(archivo_path, download_ok)]
            /\ UNCHANGED <<admin_unchanged, bucket, uploads, db>>

NextRoles ==
    \/ Login
    \/ LoginAlumnos
    \/ Logout
    \/ LogoutAlumno
    \/ CrearPagoProfesor
    \/ RegistrarPagoProfesor
    \/ EnviarArchivoDirectoProfesor
    \/ DescargarReciboAlumno
    \/ DescargarArchivoAlumno
    \/ VerArchivoSesion

SpecRoles == AdminInit /\ [][NextRoles]_vars

\* ============================================ properties of validate
Validated == v_ret # NoCall
SniffedMime == MagicFromBuffer(TakeBytes(v_call.content, 2048))
HasTraversal(filename) ==
    \E i \in 1..Len(filename) :
        \/ filename[i] \in {"/", "\\"}
        \/ (i < Len(filename) /\ filename[i] = "." /\ filename[i + 1] = ".")
NulInFirst1024 ==
    \E i \in 1..Min(1024, v_call.content.size) : ByteAt(v_call.content, i) = NUL

\* C5: after any call of validate, passed or failed, from any starting
\* position, the stream's read position is 0.
C5_PositionZeroAfterValidate == Validated => v_ret.pos = 0

\* C6: a filename containing "..", "/" or "\" fails with the invalid-name
\* error, whatever the content and the size of the stream.
C6_TraversalNameRejected ==
    (Validated /\ HasTraversal(v_call.filename))
        => (~v_ret.ok /\ v_ret.error = "InvalidName")

C6_Witness ==
    /\ Validated
    /\ v_call.filename = a_backslash_b_txt
    /\ v_call.content.size > max_size
    /\ v_ret.error = "InvalidName"

\* C7: a stream whose sniffed MIME type is not in mime_to_ext is not
\* accepted, unless the sniffer itself throws.
C7_UnknownMimeRejected ==
    (Validated /\ ~v_call.magic_raises /\ SniffedMime \notin DOMAIN mime_to_ext)
        => ~v_ret.ok

\* C8: a stream whose sniffed MIME type is in the table, under a filename
\* whose extension is not one of that type's extensions, is not accepted.
C8_ExtensionMimeMismatchRejected ==
    (/\ Validated
     /\ ~v_call.magic_raises
     /\ SniffedMime \in DOMAIN mime_to_ext
     /\ ExtOf(v_call.filename) \notin mime_to_ext[SniffedMime])
        => ~v_ret.ok

\* C9: a .txt file with a NUL byte among its first 1024 bytes is not accepted.
C9_BinaryTextRejected ==
    (Validated /\ ExtOf(v_call.filename) = txt /\ NulInFirst1024) => ~v_ret.ok

\* C10 as stated: every stream larger than 50 MiB fails with the
\* file-too-large error; one of exactly 50 MiB does not.
C10_TooLargeAlways ==
    Validated =>
        /\ (v_call.content.size > 50 * 1024 * 1024 => v_ret.error = "FileTooLarge")
        /\ (v_call.content.size = 50 * 1024 * 1024 => v_ret.error # "FileTooLarge")

\* C10 amended: every stream larger than 50 MiB, under a filename that holds
\* no "..", "/" or "\", fails with the file-too-large error whatever its
\* content and extension; a stream of exactly 50 MiB never fails with it.
C10_TooLargeUnlessNameInvalid ==
    Validated =>
        /\ (v_call.content.size > 50 * 1024 * 1024 /\ ~HasTraversal(v_call.filename))
              => (~v_ret.ok /\ v_ret.error = "FileTooLarge")
        /\ (v_call.content.size = 50 * 1024 * 1024 => v_ret.error # "FileTooLarge")

C10_Witness ==
    /\ Validated
    /\ v_call.content.size = 50 * 1024 * 1024 + 1
    /\ v_call.filename = virus_exe
    /\ SniffedMime = "application/octet-stream"
    /\ v_ret.error = "FileTooLarge"

\* C11: with the name and size checks passed, a filename without extension
\* fails with the missing-extension error, and a filename whose extension is
\* outside the allow-list fails with the extension-not-allowed error.
C11_ExtensionErrorKinds ==
    (/\ Validated
     /\ ~HasTraversal(v_call.filename)
     /\ v_call.content.size <= 50 * 1024 * 1024)
        => /\ ExtOf(v_call.filename) = <<>>
                => (~v_ret.ok /\ v_ret.error = "MissingExtension")
           /\ (ExtOf(v_call.filename) # <<>> /\ ExtOf(v_call.filename) \notin all_extensions)
                => (~v_ret.ok /\ v_ret.error = "ExtensionNotAllowed")

\* C12: 'virus.exe', of a size within the ceiling, fails with the
\* extension-not-allowed error and no read() of the stream precedes the
\* failure.
C12_DisallowedExtensionBeforeRead ==
    (/\ Validated
     /\ v_call.filename = virus_exe
     /\ v_call.content.size <= 50 * 1024 * 1024)
        => /\ ~v_ret.ok
           /\ v_ret.error = "ExtensionNotAllowed"
           /\ v_ret.reads = 0

NulStream(n) == [head |-> [i \in 1..Min(n, HeadLen) |-> NUL], size |-> n]

\* What validate gives the caller: True, or the error it raises.
Outcome(r) == <<r.ok, r.error>>

Saved == last.op = "guardar_archivo"
Retrieved == last.op = "ver_archivo"
TypedErrors == {"AppError", "FileValidationError", "DiskSpaceError", "S3UploadError"}

\* C1: retrieving the reference guardar_archivo returned, with no upload
\* under the same sanitized name in between and the remote store answering,
\* yields exactly the bytes that were uploaded, whichever backend holds them.
C1_RoundTrip ==
    (Retrieved /\ last.path \in DOMAIN stored /\ last.download_ok)
        => /\ last.response.status = "ok"
           /\ last.response.body = stored[last.path].content

C3_LocalWhenUnconfigured ==
    ~environ =>
        /\ (Saved /\ last.ok) =>
              /\ last.es_s3 = FALSE
              /\ last.ref = secure_filename(last.archivo.filename)
              /\ last.ref \in DOMAIN uploads
              /\ uploads[last.ref] = last.archivo.content
        /\ (Retrieved /\ last.path \in DOMAIN stored) =>
              /\ last.response.status = "ok"
              /\ last.response.body = uploads[last.path]
              /\ last.response.body = stored[last.path].content

C3_Witness ==
    /\ ~environ
    /\ Retrieved
    /\ last.view = "public"
    /\ last.path = report_pdf
    /\ last.path \in DOMAIN stored
    /\ last.response.status = "ok"
    /\ last.response.body = PdfBytes

IndexOf(seq, x) == IF \E i \in 1..Len(seq) : seq[i] = x
                   THEN CHOOSE i \in 1..Len(seq) : seq[i] = x
                   ELSE 0

\* C4: guardar_archivo stores an accepted file in exactly one backend and
\* its return value names it: ('uploads/<name>', True) exactly when the remote
\* upload succeeded, and then nothing is written locally; ('<name>', False)
\* exactly when the local folder was written; a call that raises writes
\* nothing; the remote store is tried only when configured, and before the
\* local folder.
C4_OneBackendNamed ==
    [][ last'.op = "guardar_archivo" =>
          LET name == secure_filename(last'.archivo.filename)
              remote == last'.s3_tried /\ last'.upload_ok
          IN  /\ (last'.ok /\ last'.es_s3) <=> remote
              /\ remote =>
                    /\ last'.ref = <<"u","p","l","o","a","d","s","/">> \o name
                    /\ last'.ref \in DOMAIN bucket'
                    /\ bucket'[last'.ref] = last'.archivo.content
                    /\ uploads' = uploads
              /\ (last'.ok /\ ~last'.es_s3) =>
                    /\ last'.ref = name
                    /\ name \in DOMAIN uploads'
                    /\ bucket' = bucket
                    /\ \A n \in DOMAIN uploads : n # name => uploads'[n] = uploads[n]
              /\ ~last'.ok => (bucket' = bucket /\ uploads' = uploads)
              /\ uploads' # uploads => (last'.ok /\ ~last'.es_s3)
              /\ bucket' # bucket => (last'.ok /\ last'.es_s3)
              /\ last'.s3_tried => environ
              /\ (IndexOf(last'.steps, "local_write") > 0 /\ last'.s3_tried)
                    => /\ IndexOf(last'.steps, "s3_upload_failed") > 0
                       /\ IndexOf(last'.steps, "s3_upload_failed")
                            < IndexOf(last'.steps, "local_write")
      ]_vars

C4_Witness ==
    /\ Saved
    /\ last.ok
    /\ last.es_s3
    /\ last.ref = uploads_prefix \o report_pdf
    /\ last.ref \in DOMAIN bucket
    /\ report_pdf \notin DOMAIN uploads
    /\ notes_txt \in DOMAIN uploads

\* C14: whenever guardar_archivo reaches the disk-space check that precedes a
\* local write (validation passed, remote storage unconfigured or its upload
\* failed) with less than 1 GiB free, it fails with DiskSpaceError and the
\* upload folder is not written; checked for the guardar_archivo of app.py.
C14_LowDiskRaises ==
    [][ (/\ last'.op = "guardar_archivo"
         /\ last'.kind = ""
         /\ ~(last'.s3_tried /\ last'.upload_ok)
         /\ disk_free < 1024 * 1024 * 1024)
            => /\ ~last'.ok
               /\ last'.error = "DiskSpaceError"
               /\ uploads' = uploads
      ]_vars

C18_TypedFailures ==
    (Saved /\ ~last.ok) => last.error \in TypedErrors

\* C16: a reference that guardar_archivo returned for a remote object
\* ('uploads/<name>'), asked for while the serving process has no remote
\* credentials, is answered with the backend-unavailable outcome: never with
\* a file, a not-found or no answer from a lookup in the local folder.
C16_BackendUnavailable ==
    (/\ Retrieved
     /\ StartsWith(last.path, <<"u","p","l","o","a","d","s","/">>)
     /\ ~last.configured)
        => last.response.status = "unavailable"

\* C19: every guardar_archivo call decides for or against remote storage by
\* the configuration the module-level gateway was built with, whatever has
\* happened to the process environment since, so that store and retrieve
\* agree on it.
C19_ConfigReadOnce ==
    Saved => last.configured = last.gateway

\* ============================== properties of the handlers of admin.py
DeleteOps == {"eliminar_reporte", "eliminar_boleta_guardada", "eliminar_pago"}
StoreOps ==
    {"registrar_pago", "responder_solicitud_archivo", "enviar_archivo_directo",
     "agregar_libro"}

C20_FallbackInOtherHandlers ==
    (/\ last.op \in StoreOps
     /\ last.reached
     /\ last.configured
     /\ ~last.upload_ok
     /\ ~last.duplicate)
        => /\ last.committed
           /\ last.archivo_url \in DOMAIN uploads

\* ======================================= properties of the generated documents
DownloadOps == {"descargar_boleta_guardada", "descargar_reporte_guardado"}

\* C21: the reference persisted for a generated boleta or attendance report
\* is enough to get the generated PDF back: with the remote store answering,
\* descargar_boleta_guardada and descargar_reporte_guardado return it, both for
\* a document that was uploaded and for one that was only written locally.
C21_ReferenceRetrieves ==
    (last.op \in DownloadOps /\ last.download_ok)
        => last.response = Found(GeneratedPdf)

\* C22: the report generators store under the policy of the uploads: a
\* document whose remote upload succeeded (its row holds the URL) is not also
\* written to the local disk.
C22_RemoteOrLocal ==
    [][\A table \in {"boletas", "reportes"} :
          \A r \in db'[table] \ db[table] :
              IsHttp(r.archivo_url) => uploads' = uploads]_vars

\* ------------------------------------------------ deleting an owning record
OwnerDeleteOps ==
    {"eliminar_recurso", "eliminar_boleta_guardada", "eliminar_reporte", "eliminar_libro"}

\* The names under which the file of a row can be held, in the bucket or in
\* the upload folder.
ObjectsOf(op, row) ==
    CASE op = "eliminar_recurso" -> {row.archivo_url}
      [] op = "eliminar_libro" -> {row.archivo_pdf_url}
      [] op = "eliminar_reporte" -> {<<"reportes">> \o row.nombre_archivo}
      [] op = "eliminar_boleta_guardada" -> {<<"boletas">> \o row.nombre_archivo}

\* C23: once eliminar_recurso, eliminar_boleta_guardada, eliminar_reporte or
\* eliminar_libro has completed with no error from the store, no object of the
\* deleted record is left, in the bucket or on the local disk.
C23_NoObjectLeft ==
    (last.op \in OwnerDeleteOps /\ ~last.raised)
        => \A row \in last.rows : \A k \in ObjectsOf(last.op, row) :
               k \notin DOMAIN bucket /\ k \notin DOMAIN uploads

\* ------------------------------------------- uploads under one name
\* The object a reference of guardar_archivo names, in the bucket and the
\* folder given.
ObjectUnder(ref, objects, folder) ==
    IF StartsWith(ref, uploads_prefix)
    THEN IF ref \in DOMAIN objects THEN objects[ref] ELSE Absent
    ELSE IF ref \in DOMAIN folder THEN folder[ref] ELSE Absent

\* C24: two successful guardar_archivo calls, one after the other, whose
\* filenames sanitize to the same name return the same reference, and the
\* object under that reference is then, whole, the content of the later
\* upload.
C24_SameNameLastWins ==
    [][(/\ Saved /\ last.ok
        /\ last'.op = "guardar_archivo" /\ last'.ok
        /\ last'.filename = last.filename)
       => /\ last'.ref = last.ref
          /\ ObjectUnder(last'.ref, bucket', uploads') = last'.archivo.content]_vars

\* ------------------------------------------------------------- pagos
RECURSIVE SumMontos(_)
SumMontos(recibos) ==
    IF recibos = {} THEN 0
    ELSE LET r == CHOOSE x \in recibos : TRUE
         IN  r.monto + SumMontos(recibos \ {r})

RecibosOf(tables, pago) == {r \in tables.recibos : r.pago_id = pago.id}

PagoConsistent(tables, pago) ==
    /\ pago.monto_pendiente >= 0
    /\ pago.monto_pagado + pago.monto_pendiente = pago.monto_total
    /\ SumMontos(RecibosOf(tables, pago)) = pago.monto_pagado
    /\ pago.estado = "completado" <=> pago.monto_pendiente = 0
    /\ (RecibosOf(tables, pago) # {} /\ pago.monto_pendiente > 0)
           => pago.estado = "parcial"

\* C26: after any step of crear_pago and registrar_pago requests, overlapping
\* or not, every Pago has monto_pendiente >= 0, monto_pagado + monto_pendiente
\* = monto_total, recibos that add up to monto_pagado, estado 'completado'
\* exactly when nothing is pending and 'parcial' when something was paid and
\* something is pending; a request with an amount <= 0 or above
\* monto_pendiente changes no table.
C26_PagoAccounts ==
    [][/\ \A pago \in db'.pagos : PagoConsistent(db', pago)
       /\ (last'.op = "registrar_pago" /\ ~last'.reached) => db' = db]_vars

\* -------------------------------------------------------------- chat
SendOps == {"enviar_mensaje", "handle_enviar_mensaje", "enviar_mensaje_app"}

\* C27: while the 'chat_activo' row says 'False', a message sent through the
\* HTTP route or through the socket handler is rejected: no Mensaje row is
\* added and nothing is broadcast.
C27_NoMessageWhileDeactivated ==
    [][(~chat_activo /\ last'.op \in SendOps /\ db'.configuracion = db.configuracion)
          => /\ db'.mensajes = db.mensajes
             /\ ~last'.persisted
             /\ ~last'.broadcast]_vars

\* ------------------------------------------------------- RateLimiter
\* The accepted calls of `key` later than `now - LimiterWindowSeconds`.
AcceptedInWindow(log, key, now) ==
    Len(SelectSeq(log, LAMBDA c : c.key = key /\ c.t > now - LimiterWindowSeconds))

TimestampsOf(requests, key) == IF key \in DOMAIN requests THEN requests[key] ELSE <<>>

\* C28: when is_allowed(key) returns True, the accepted calls of that key in
\* the window_seconds before it (boundary excluded, this call included) are
\* at most max_requests; a call that returns False records no timestamp; and
\* a call on one key changes no later outcome for another key.
C28_SlidingWindow ==
    [][last'.op = "is_allowed" /\ proc'.time = proc.time =>
          /\ last'.allowed =>
                 AcceptedInWindow(proc'.accepted, last'.key, last'.now)
                     <= LimiterMaxRequests
          /\ ~last'.allowed =>
                 /\ proc'.accepted = proc.accepted
                 /\ Len(TimestampsOf(proc'.limiter, last'.key))
                        <= Len(TimestampsOf(proc.limiter, last'.key))
                 /\ \A i \in 1..Len(TimestampsOf(proc'.limiter, last'.key)) :
                        \E j \in 1..Len(TimestampsOf(proc.limiter, last'.key)) :
                            TimestampsOf(proc.limiter, last'.key)[j]
                                = TimestampsOf(proc'.limiter, last'.key)[i]
          /\ \A other \in LimiterKeys \ {last'.key} : \A now \in proc.time..MaxClock :
                 is_allowed(proc'.limiter, other, now,
                            LimiterMaxRequests, LimiterWindowSeconds).allowed
                 = is_allowed(proc.limiter, other, now,
                              LimiterMaxRequests, LimiterWindowSeconds).allowed]_vars

\* A call accepted as the last one its window allows, after earlier accepted
\* calls of the key have left the window.
C28_Witness ==
    /\ last.op = "is_allowed"
    /\ last.allowed
    /\ AcceptedInWindow(proc.accepted, last.key, last.now) = LimiterMaxRequests
    /\ Len(SelectSeq(proc.accepted, LAMBDA c : c.key = last.key)) > LimiterMaxRequests

\* ------------------------------------------------------ chat presence
OpenSids(grupo) == {sid \in DOMAIN proc.sockets : proc.sockets[sid].alumno_grado = grupo}

\* C29: after any interleaving of connects and disconnects,
\* usuarios_conectados[group] holds exactly one entry per open connection of
\* the group, no group maps to an empty dict, the total_conectados emitted is
\* that number of entries, and a student without an open connection is in no
\* dict of usuarios_escribiendo.
C29_PresenceTracking ==
    /\ \A grupo \in Grupos :
           /\ DOMAIN DictGet(proc.usuarios_conectados, grupo) = OpenSids(grupo)
           /\ \A sid \in OpenSids(grupo) :
                  proc.usuarios_conectados[grupo][sid].alumno_id
                      = proc.sockets[sid].alumno_id
    /\ \A grupo \in DOMAIN proc.usuarios_conectados :
           DOMAIN proc.usuarios_conectados[grupo] # {}
    /\ (last.op \in {"connect", "disconnect"} /\ last.accepted)
           => last.total_conectados = Cardinality(OpenSids(last.grado_grupo))
    /\ \A grupo \in DOMAIN proc.usuarios_escribiendo :
           \A alumno_id \in DOMAIN proc.usuarios_escribiendo[grupo] :
               \E sid \in DOMAIN proc.sockets : proc.sockets[sid].alumno_id = alumno_id

\* The last connection of a group has closed while a student of another
\* group is connected and was typing.
C29_Witness ==
    /\ last.op = "disconnect"
    /\ last.total_conectados = 0
    /\ DOMAIN proc.sockets # {}
    /\ \E grupo \in DOMAIN proc.usuarios_escribiendo :
           DOMAIN proc.usuarios_escribiendo[grupo] # {}

\* ------------------------------------------------- sessions and roles
ProfesorViews == {"crear_pago", "registrar_pago", "enviar_archivo_directo"}
AlumnoViews ==
    {"descargar_recibo_alumno", "descargar_archivo_alumno", "ver_archivo_alumno"}

\* The alumnos whose recibo or sent file is kept under a reference.
OwnersOf(tables, path) ==
    {p.alumno_id : p \in {q \in tables.pagos :
                            \E r \in tables.recibos :
                                r.pago_id = q.id /\ r.archivo_url = path}}
        \cup {e.alumno_id : e \in {f \in tables.enviados : f.archivo_url = path}}

\* C30: a view behind require_role(role) is called only under a session
\* whose tipo_usuario is that role and which holds 'user' (profesor) or
\* 'alumno_id' (alumno), so under no cleared session; and a student is sent
\* a recibo or a sent file, or has it marked as read, only when it is that of
\* the alumno_id of the session.
C30_RoleGating ==
    [][/\ last'.op \in ProfesorViews
            => session.tipo_usuario = "profesor" /\ "user" \in DOMAIN session
       /\ last'.op \in AlumnoViews
            => session.tipo_usuario = "alumno" /\ "alumno_id" \in DOMAIN session
       /\ session = NoSession => last'.op \notin ProfesorViews \cup AlumnoViews
       /\ (last'.op \in AlumnoViews /\ last'.response.status = "ok")
            => \A owner \in OwnersOf(db, last'.path) : owner = session.alumno_id
       /\ \A e \in db'.enviados :
              (e.leido /\ \E e0 \in db.enviados : e0.id = e.id /\ ~e0.leido)
                  => e.alumno_id = session.alumno_id
      ]_vars

====
